---- MODULE Spec2Model ----
(***************************************************************************)
(* A model of the merge (synthesis) sacrifice grouper of src/src/merge.ts  *)
(* and of the inventory read / recharge cycle of the db module that is     *)
(* bundled in src/src/trade.ts (lines 987-1301).                           *)
(***************************************************************************)
EXTENDS Integers, Sequences, FiniteSets, TLC

VARIABLES
    \* ---- getSacrifices (src/src/merge.ts:61-164) ----
    characters,   \* the list handed to getSacrifices
    mode,         \* 'target' | 'min' | 'max'
    target,       \* the requested target, Undefined when none is passed
    result,       \* what getSacrifices returned or threw
    mpc,          \* "call" before the call, "done" after it
    \* ---- the inventory record in Deno KV (db module, src/src/trade.ts) ----
    kv,           \* key -> [versionstamp, value]; versionstamp 0 is null (no entry)
    lastStamp,    \* the versionstamp of the latest commit
    now,          \* the wall clock (new Date()), in minutes
    rp,           \* the running rechargePulls calls: their locals and position
    pull,         \* the running pull commit: its locals and position
    commits,      \* history: who committed an inventory mutation, from which read
    \* ---- getFilteredCharacters (src/src/merge.ts:20-59) ----
    owned,        \* db.getUserCharacters: the characters of the inventory
    party,        \* db.getUserParty: member1..member5, NoId for an empty slot
    likes,        \* user.likes: entries with a characterId or a mediaId
    filtered,     \* what getFilteredCharacters returned
    fpc,          \* "call" before the call, "done" after it
    \* ---- utils.shuffle (src/src/utils.ts:71-82) ----
    input,        \* the array as it was passed
    array,        \* the array, shuffled in place
    si,           \* the loop index i (0-based), -1 when no call is made
    rolls,         \* the values `swap` took so far, one per iteration
    \* ---- packs.pool (src/src/packs.ts:738-803) ----
    anilist,      \* packs/anilist/pool.json: bracket key -> role buckets
    list,         \* packs.all({ guildId }): the manifests of the guild
    range,        \* argument: the bracket key, Nothing when stars is given
    role,         \* argument: a CharacterRole or Nothing
    stars,        \* argument: a rating or Undefined
    shuffled,     \* the concatenated pool after utils.shuffle
    pooled,       \* what pool returned or threw
    ppc,          \* "call" before the call, "done" after it
    \* ---- utils.rng (src/src/utils.ts:110-141) ----
    dict,         \* the table, its entries in insertion order
    sample,       \* what rng returned or threw
    rngpc,        \* "call" before the call, "done" after it
    \* ---- gacha.rngPull (src/gacha.ts, exercised by src/tests/gacha.test.ts) ----
    byUser,       \* argument userId: the user, Nothing when it is not given
    guarantee,    \* argument: the guaranteed rating, Undefined when not given
    candidates,   \* what packs.pool returned, less the entries already tried
    chosen,       \* the entry that passed validation, Nothing when none
    inventory,    \* the inventory of the user in the store
    before,       \* the inventory when the pull began
    steps,        \* history: the steps of the pull so far, in order
    answers,      \* history: the answers of the store to the commits
    outcome,      \* what rngPull returned or threw
    gpc,           \* "sample", "pool", "pick", "commit", "done"; "off"
    \* ---- packs.cachedGuilds: all, install, uninstall (src/src/packs.ts) ----
    cachedGuilds, \* guildId -> { packs, disables }, NoCache when not cached
    installed,    \* the store: guildId -> the packs installed in its instance
    allCalls,     \* the running packs.all calls: position, guildId, _packs
    changes,       \* the running install / uninstall calls: position, arguments
    \* ---- packs.isDisabled (src/src/packs.ts:125-136) ----
    disabled,      \* the last isDisabled call: its arguments and what it returned
    \* ---- utils.fetchWithRetry (src/src/utils.ts:88-108) ----
    \* per caller: position, n, the outcome of every attempt, the sleeps
    \* taken and what the returned promise settled to
    requests,
    \* ---- Rating (src/rating.ts) ----
    ratedRole,    \* the role given to the constructor, or Nothing
    popularities, \* two popularity values, the first not above the second
    rated,         \* the stars computed for each of them, <<>> before
    \* ---- the cache builder (src/packs/anilist/pool.ts) ----
    popularityOf,    \* the catalog: popularity of each media, 0 when missing
    adultMedia,      \* the catalog: the media flagged isAdult
    missingEdges,    \* the catalog: the characters whose node has no media edge
    inclusiveFilter, \* the catalog: whether its popularity filters include the limit
    job,              \* the batch job: loop counters, buckets, cache, history
    \* ---- steal.getChances (src/steal.ts) ----
    cardRating,   \* the rating of the character to steal
    lastPullAgo,  \* hours since the owner's last pull, NeverPulled if none
    stealChance,   \* the chance computed, 0 before
    \* ---- steal.pre and steal.attempt (src/steal.ts) ----
    clock,        \* the current time
    cooldowns,    \* inventory.stealTimestamp of every user, 0 when undefined
    holder,       \* the user who owns the character
    drawn,        \* how many random draws were made
    shown,         \* the message the last call patched into the interaction
    \* ---- rechargePulls on one inventory (src/src/trade.ts:1176-1228) ----
    budget,       \* the inventory getInventory returns
    calledAt,     \* the time of the call, in minutes
    credited,      \* the inventory rechargePulls returned, <<>> before
    \* ---- the first calls of a guild and a user (src/src/trade.ts:1015-1174) ----
    records,      \* the store: key -> value, for the keys that hold a value
    calls,         \* the running handlers: position and locals
    \* ---- trade.pre (src/src/trade.ts:108-358) ----
    offer,        \* the characters to give and to take, as found by the search
    holdings,     \* the store: collection and party of the user and the target
    patched       \* the message pre patched, <<>> before

mergeVars == <<characters, mode, target, result, mpc>>

kvVars == <<kv, lastStamp, now, rp, pull, commits>>

filterVars == <<owned, party, likes, filtered, fpc>>

shuffleVars == <<input, array, si, rolls>>

poolVars == <<anilist, list, range, role, stars, shuffled, pooled, ppc>>

rngVars == <<dict, sample, rngpc>>

pullVars ==
    <<byUser, guarantee, candidates, chosen, inventory, before, steps, answers,
      outcome, gpc>>

cacheVars == <<cachedGuilds, installed, allCalls, changes>>

queryVars == <<disabled>>

fetchVars == <<requests>>

ratingVars == <<ratedRole, popularities, rated>>

buildVars == <<popularityOf, adultMedia, missingEdges, inclusiveFilter, job>>

chanceVars == <<cardRating, lastPullAgo, stealChance>>

stealVars == <<clock, cooldowns, holder, drawn, shown>>

rechargeVars == <<budget, calledAt, credited>>

recordsVars == <<records, calls>>

tradeVars == <<offer, holdings, patched>>

vars == <<mergeVars, kvVars, filterVars, shuffleVars, poolVars, rngVars, pullVars, cacheVars, queryVars, fetchVars, ratingVars, buildVars, chanceVars, stealVars, rechargeVars, recordsVars, tradeVars>>

\* what the steps of one part of the model leave alone
notMerge == <<kvVars, filterVars, shuffleVars, poolVars, rngVars, pullVars, cacheVars, queryVars, fetchVars, ratingVars, buildVars, chanceVars, stealVars, rechargeVars, recordsVars, tradeVars>>

notKv == <<mergeVars, filterVars, shuffleVars, poolVars, rngVars, pullVars, cacheVars, queryVars, fetchVars, ratingVars, buildVars, chanceVars, stealVars, rechargeVars, recordsVars, tradeVars>>

notFilter == <<mergeVars, kvVars, shuffleVars, poolVars, rngVars, pullVars, cacheVars, queryVars, fetchVars, ratingVars, buildVars, chanceVars, stealVars, rechargeVars, recordsVars, tradeVars>>

notShuffle == <<mergeVars, kvVars, filterVars, poolVars, rngVars, pullVars, cacheVars, queryVars, fetchVars, ratingVars, buildVars, chanceVars, stealVars, rechargeVars, recordsVars, tradeVars>>

notPool == <<mergeVars, kvVars, filterVars, shuffleVars, rngVars, pullVars, cacheVars, queryVars, fetchVars, ratingVars, buildVars, chanceVars, stealVars, rechargeVars, recordsVars, tradeVars>>

notRng == <<mergeVars, kvVars, filterVars, shuffleVars, poolVars, pullVars, cacheVars, queryVars, fetchVars, ratingVars, buildVars, chanceVars, stealVars, rechargeVars, recordsVars, tradeVars>>

notPull == <<mergeVars, kvVars, filterVars, shuffleVars, poolVars, rngVars, cacheVars, queryVars, fetchVars, ratingVars, buildVars, chanceVars, stealVars, rechargeVars, recordsVars, tradeVars>>

notCache == <<mergeVars, kvVars, filterVars, shuffleVars, poolVars, rngVars, pullVars, queryVars, fetchVars, ratingVars, buildVars, chanceVars, stealVars, rechargeVars, recordsVars, tradeVars>>

notQuery == <<mergeVars, kvVars, filterVars, shuffleVars, poolVars, rngVars, pullVars, cacheVars, fetchVars, ratingVars, buildVars, chanceVars, stealVars, rechargeVars, recordsVars, tradeVars>>

notFetch == <<mergeVars, kvVars, filterVars, shuffleVars, poolVars, rngVars, pullVars, cacheVars, queryVars, ratingVars, buildVars, chanceVars, stealVars, rechargeVars, recordsVars, tradeVars>>

notRating == <<mergeVars, kvVars, filterVars, shuffleVars, poolVars, rngVars, pullVars, cacheVars, queryVars, fetchVars, buildVars, chanceVars, stealVars, rechargeVars, recordsVars, tradeVars>>

notBuild == <<mergeVars, kvVars, filterVars, shuffleVars, poolVars, rngVars, pullVars, cacheVars, queryVars, fetchVars, ratingVars, chanceVars, stealVars, rechargeVars, recordsVars, tradeVars>>

notChance == <<mergeVars, kvVars, filterVars, shuffleVars, poolVars, rngVars, pullVars, cacheVars, queryVars, fetchVars, ratingVars, buildVars, stealVars, rechargeVars, recordsVars, tradeVars>>

notSteal == <<mergeVars, kvVars, filterVars, shuffleVars, poolVars, rngVars, pullVars, cacheVars, queryVars, fetchVars, ratingVars, buildVars, chanceVars, rechargeVars, recordsVars, tradeVars>>

notRecharge == <<mergeVars, kvVars, filterVars, shuffleVars, poolVars, rngVars, pullVars, cacheVars, queryVars, fetchVars, ratingVars, buildVars, chanceVars, stealVars, recordsVars, tradeVars>>

notRecords == <<mergeVars, kvVars, filterVars, shuffleVars, poolVars, rngVars, pullVars, cacheVars, queryVars, fetchVars, ratingVars, buildVars, chanceVars, stealVars, rechargeVars, tradeVars>>

notTrade == <<mergeVars, kvVars, filterVars, shuffleVars, poolVars, rngVars, pullVars, cacheVars, queryVars, fetchVars, ratingVars, buildVars, chanceVars, stealVars, rechargeVars, recordsVars>>

\* ------------------------------------------------------------------------
\* Bounds of the model
\* ------------------------------------------------------------------------

\* how many characters of rating 1 an enumerated inventory holds at most
MaxOnes == 6
\* how many characters of each of the ratings 2..5 it holds at most
MaxCount == 5
\* how many pulls the concurrent pull commit makes at most
MaxPullCommits == 5
\* the clock advances in steps of TickMins minutes up to MaxNow
TickMins == 15
MaxNow == 30

\* ------------------------------------------------------------------------
\* Values
\* ------------------------------------------------------------------------

\* JavaScript's undefined for the optional number `target` (falsy, like 0)
Undefined == 0

Ratings == 1..5

Min(a, b) == IF a < b THEN a ELSE b

Max(a, b) == IF a > b THEN a ELSE b

\* a to the power n
RECURSIVE Pow(_, _)
Pow(a, n) == IF n = 0 THEN 1 ELSE a * Pow(a, n - 1)

\* ------------------------------------------------------------------------
\* Inputs: inventories given by how many characters of each rating they hold
\* ------------------------------------------------------------------------

\* n characters of rating r with the ids from+1 .. from+n
Block(r, n, from) == [k \in 1..n |-> [id |-> from + k, rating |-> r]]

\* the inventory with n[r] characters of rating r, listed by ascending rating
\* when asc and by descending rating otherwise; ids number the list
Inventory(n, asc) ==
    IF asc
    THEN Block(1, n[1], 0) \o Block(2, n[2], n[1]) \o Block(3, n[3], n[1] + n[2])
         \o Block(4, n[4], n[1] + n[2] + n[3])
         \o Block(5, n[5], n[1] + n[2] + n[3] + n[4])
    ELSE Block(5, n[5], 0) \o Block(4, n[4], n[5]) \o Block(3, n[3], n[5] + n[4])
         \o Block(2, n[2], n[5] + n[4] + n[3])
         \o Block(1, n[1], n[5] + n[4] + n[3] + n[2])

\* the inventories of the unit tests of getSacrifices (src/tests/merge.test.ts)
\* and their neighbours
Fixtures ==
    { <<25, 0, 0, 0, 0>>, <<24, 0, 0, 0, 0>>, <<26, 0, 0, 0, 0>>,
      <<20, 1, 0, 0, 0>>, <<0, 25, 0, 0, 0>>, <<625, 0, 0, 0, 0>>,
      <<625, 0, 0, 1, 0>>, <<630, 0, 0, 0, 0>>, <<500, 0, 25, 0, 0>>,
      <<120, 0, 0, 4, 1>> }

Enumerated ==
    { n \in [1..5 -> 0..Max(MaxOnes, MaxCount)] :
        /\ n[1] <= MaxOnes
        /\ \A r \in 2..5 : n[r] <= MaxCount }

\* ------------------------------------------------------------------------
\* Array helpers
\* ------------------------------------------------------------------------

\* Array.prototype.toSorted((a, b) => a.rating - b.rating): a stable sort; with
\* the ratings in 1..5 it lists the characters of rating 1 in their order, then
\* those of rating 2, and so on
toSorted(chars) ==
    SelectSeq(chars, LAMBDA c : c.rating = 1)
    \o SelectSeq(chars, LAMBDA c : c.rating = 2)
    \o SelectSeq(chars, LAMBDA c : c.rating = 3)
    \o SelectSeq(chars, LAMBDA c : c.rating = 4)
    \o SelectSeq(chars, LAMBDA c : c.rating = 5)

\* the receiver had the code sorted it in place (Array.prototype.sort)
receiver_sortedInPlace(chars) == toSorted(chars)

\* the receiver of toSorted after the call (line 81): toSorted sorts a copy,
\* the array it is called on is left as it was
receiver(chars) == chars

\* $std/collections/chunk: consecutive slices of `size`, the last one shorter
\* when the length is no multiple of size
chunks(a, size) ==
    [k \in 1..((Len(a) + size - 1) \div size) |->
        SubSeq(a, (k - 1) * size + 1, Min(k * size, Len(a)))]

\* Array.prototype.slice(0, n)
slice0(a, n) == SubSeq(a, 1, Min(n, Len(a)))

\* Array.prototype.flat() of an array of arrays
RECURSIVE flat(_)
flat(t) == IF t = <<>> THEN <<>> ELSE Head(t) \o flat(Tail(t))

\* findIndex as a search from the end would have it (the last hit)
findIndex_lastHit(ps) ==
    LET hits == {k \in 1..Len(ps) : Len(ps[k]) >= 5}
    IN IF hits = {} THEN 0 ELSE CHOOSE k \in hits : \A j \in hits : k >= j

\* Array.prototype.findIndex((t) => t.length >= 5), counted from 1; 0 for -1
findIndex(ps) ==
    LET hits == {k \in 1..Len(ps) : Len(ps[k]) >= 5}
    IN IF hits = {} THEN 0 ELSE CHOOSE k \in hits : \A j \in hits : k <= j

\* ------------------------------------------------------------------------
\* getSacrifices (src/src/merge.ts:61-164)
\* ------------------------------------------------------------------------

\* bucket without the folding of rating 5 into the tier-4 material
bucket_noFold(c) == c.rating

\* the bucket a character is put in: rating 5 goes with rating 4 (line 83)
bucket(c) == IF c.rating = 5 THEN 4 ELSE c.rating

\* lines 71-84: the sorted characters separated by bucket; bucket 5 stays empty
split(chars) ==
    [i \in Ratings |-> SelectSeq(toSorted(chars), LAMBDA c : bucket(c) = i)]

\* line 118: every character of a bucket as a possibility of its own
singles(s) == [k \in 1..Len(s) |-> <<s[k]>>]

\* folded without `.slice(0, length)`: the short last chunk is kept
folded_keepPartial(prev) ==
    LET all == chunks(prev, 5)
    IN [k \in 1..Len(all) |-> flat(all[k])]

\* lines 105-114: the possibilities of the previous tier, five at a time,
\* each full five flattened into one possibility
folded(prev) ==
    LET length == Len(prev) \div 5
        full == slice0(chunks(prev, 5), length)
    IN [k \in 1..Len(full) |-> flat(full[k])]

\* tierStep without the possibilities folded up from the tier below
tierStep_noFold(poss, sp, tgt, i) ==
    IF tgt # Undefined /\ Len(poss[tgt]) > 0
    THEN poss
    ELSE [poss EXCEPT ![i] = singles(sp[i])]

\* tierStep breaking as soon as the tier below the target is populated
tierStep_breaksBelowTarget(poss, sp, tgt, i) ==
    IF tgt # Undefined /\ tgt > 1 /\ Len(poss[tgt - 1]) > 0
    THEN poss
    ELSE [poss EXCEPT ![i] =
            (IF i > 1 THEN folded(poss[i - 1]) ELSE <<>>) \o singles(sp[i])]

\* lines 94-119: one round of the forEach over [1, 2, 3, 4, 5]
tierStep(poss, sp, tgt, i) ==
    IF tgt # Undefined /\ Len(poss[tgt]) > 0
    THEN poss
    ELSE [poss EXCEPT ![i] =
            (IF i > 1 THEN folded(poss[i - 1]) ELSE <<>>) \o singles(sp[i])]

\* lines 86-119: the possibilities of every tier
RECURSIVE tierLoop(_, _, _, _)
tierLoop(poss, sp, tgt, i) ==
    IF i > 5 THEN poss
    ELSE tierLoop(tierStep(poss, sp, tgt, i), sp, tgt, i + 1)

possibilities(chars, tgt) ==
    tierLoop([i \in Ratings |-> <<>>], split(chars), tgt, 1)

\* lines 123-129 and 132-138: the forEach over the tiers in the given order;
\* every tier that has a possibility of 5 or more overwrites the target
RECURSIVE scan(_, _, _)
scan(order, poss, tgt) ==
    IF order = <<>> THEN tgt
    ELSE scan(Tail(order), poss,
              IF findIndex(poss[Head(order)]) > 0 THEN Head(order) ELSE tgt)

\* the order of 'min' scanned upwards
minOrder_ascending == <<2, 3, 4, 5>>

\* line 123
minOrder == <<5, 4, 3, 2>>

\* the order of 'max' scanned downwards
maxOrder_descending == <<5, 4, 3, 2>>

\* line 132
maxOrder == <<2, 3, 4, 5>>

\* lines 121-142
resolve(m, poss, tgt) ==
    CASE m = "min" -> scan(minOrder, poss, tgt)
      [] m = "max" -> scan(maxOrder, poss, tgt)
      [] OTHER -> tgt

\* what a call that threw or returned leaves behind
Thrown(err, count, tgt) ==
    [status |-> err, group |-> <<>>, target |-> tgt, count |-> count]

Returned(group, tgt) ==
    [status |-> "ok", group |-> group, target |-> tgt, count |-> 0]

\* select reporting the possibilities of the target tier, not of the one below
select_countAtTarget(poss, tgt) ==
    IF tgt = Undefined
    THEN Thrown("merge-not-possible", 0, tgt)
    ELSE LET index == findIndex(poss[tgt])
         IN IF index = 0
            THEN IF tgt - 1 \in Ratings
                 THEN Thrown("merge-insufficient", Len(poss[tgt]), tgt)
                 ELSE Thrown("TypeError", 0, tgt)
            ELSE Returned(poss[tgt][index], tgt)

\* select without the `if (!target)` of lines 144-148: possibilities[undefined]
\* is read and throws
select_noTargetCheck(poss, tgt) ==
    IF tgt = Undefined
    THEN Thrown("TypeError", 0, tgt)
    ELSE LET index == findIndex(poss[tgt])
         IN IF index = 0
            THEN IF tgt - 1 \in Ratings
                 THEN Thrown("merge-insufficient", Len(poss[tgt - 1]), tgt)
                 ELSE Thrown("TypeError", 0, tgt)
            ELSE Returned(poss[tgt][index], tgt)

\* lines 144-163
select(poss, tgt) ==
    IF tgt = Undefined
    THEN Thrown("merge-not-possible", 0, tgt)
    ELSE LET index == findIndex(poss[tgt])
         IN IF index = 0
            THEN IF tgt - 1 \in Ratings
                 THEN Thrown("merge-insufficient", Len(poss[tgt - 1]), tgt)
                 \* possibilities[0] is undefined: reading its length throws
                 ELSE Thrown("TypeError", 0, tgt)
            ELSE Returned(poss[tgt][index], tgt)

getSacrifices(chars, m, tgt) ==
    LET poss == possibilities(chars, tgt)
    IN select(poss, resolve(m, poss, tgt))

\* ------------------------------------------------------------------------
\* The inventory record in Deno KV (db module bundled in src/src/trade.ts)
\* ------------------------------------------------------------------------

\* src/src/trade.ts:1011-1013
MAX_PULLS == 5
MAX_NEW_PULLS == 10
RECHARGE_MINS == 30

\* line 1214: Math.min(99, rechargedPulls)
PullsCap == 99

\* line 1186: retires < 5
RetryLimit == 5

\* an inventory without rechargeTimestamp (undefined)
NoTimestamp == -1

\* the ids (ulids) of the one instance and the one user of the model
InstanceId == "instance"
UserId == "user"

\* the callers of rechargePulls and the one pull commit running beside them
Rechargers == {"r1", "r2"}
Puller == "p"

\* ulid(): an id no other call makes
ulid(p) == "inv_" \o p

\* the inventory the store holds before the calls, when it holds one
OldInventoryId == "inv_0"

InventoryIds == {OldInventoryId} \cup {ulid(p) : p \in Rechargers}

\* db/indices.ts inventoriesByUser(instanceId, userId): the index key of the
\* inventory of a user in an instance
inventoriesByUser(instanceId, userId) ==
    <<"inventories_by_instance_user", instanceId, userId>>

\* db/indices.ts usersByDiscordId
usersByDiscordId(id) == <<"users_by_discord_id", id, "">>

\* ['inventories', id], ['instances', id], ['users', id]
primaryKey(table, id) == <<table, id, "">>

Keys ==
    {primaryKey("inventories", i) : i \in InventoryIds}
    \cup {inventoriesByUser(InstanceId, x) : x \in {UserId} \cup InventoryIds}
    \cup {primaryKey("instances", InstanceId), primaryKey("users", UserId),
          usersByDiscordId(UserId)}

\* Schema.Inventory
InventoryRecord(id, pulls, ts) ==
    [_id |-> id, availablePulls |-> pulls, rechargeTimestamp |-> ts,
     instance |-> InstanceId, user |-> UserId]

\* Schema.Instance and Schema.User, as far as getInventory touches them
OwnerRecord(inventories) == [inventories |-> inventories]

\* an entry of the store; versionstamp 0 is Deno KV's null: no value
Entry(stamp, value) == [versionstamp |-> stamp, value |-> value]

NoEntry == Entry(0, OwnerRecord(<<>>))

\* kv.atomic().check(...).commit(): the commit is applied when every checked
\* key still carries the versionstamp of the check
checksPass(store, checks) ==
    \A c \in checks : store[c.key].versionstamp = c.versionstamp

\* kv.atomic().set(...)...commit(): every set key gets the value and the
\* versionstamp of this commit (sets: key -> value, later sets win)
applySets(store, sets, stamp) ==
    [k \in Keys |-> IF k \in DOMAIN sets THEN Entry(stamp, sets[k]) ELSE store[k]]

\* a function from the listed <<key, value>> pairs, later pairs winning
RECURSIVE setsOf(_)
setsOf(pairs) ==
    IF pairs = <<>> THEN <<>>
    ELSE LET rest == setsOf(SubSeq(pairs, 1, Len(pairs) - 1))
             last == pairs[Len(pairs)]
         IN [k \in (DOMAIN rest) \cup {last[1]} |->
                IF k = last[1] THEN last[2] ELSE rest[k]]

\* utils.diffInMinutes (src/src/utils.ts:332-334) of two dates given in minutes
diffInMinutes(a, b) == IF a >= b THEN a - b ELSE b - a

\* lines 1140-1145: the inventory getInventory creates
newInventory(p) == InventoryRecord(ulid(p), MAX_NEW_PULLS, NoTimestamp)

\* lines 1150-1161: the sets of getInventory's insert
insertSets(inv, instance, user) ==
    setsOf(<< <<primaryKey("inventories", inv._id), inv>>,
              <<inventoriesByUser(InstanceId, UserId), inv>>,
              <<primaryKey("instances", InstanceId), instance>>,
              <<primaryKey("users", UserId), user>>,
              <<usersByDiscordId(UserId), user>> >>)

\* lines 1192-1194
rechargeStart(inv, t) ==
    IF inv.rechargeTimestamp # NoTimestamp THEN inv.rechargeTimestamp ELSE t

\* lines 1198-1206
newPulls(inv, t) ==
    Max(0, Min(MAX_PULLS - inv.availablePulls,
               diffInMinutes(rechargeStart(inv, t), t) \div RECHARGE_MINS))

\* lines 1212-1224: the inventory after the recharge
recharged(inv, t) ==
    LET rechargedPulls == inv.availablePulls + newPulls(inv, t)
    IN [inv EXCEPT
          !.availablePulls = Min(PullsCap, rechargedPulls),
          !.rechargeTimestamp =
              IF rechargedPulls >= MAX_PULLS THEN NoTimestamp
              ELSE rechargeStart(inv, t) + newPulls(inv, t) * RECHARGE_MINS]

\* lines 1230-1236: the sets of rechargePulls' commit
rechargeSets(inv) ==
    setsOf(<< <<primaryKey("inventories", inv._id), inv>>,
              <<inventoriesByUser(inv.instance, inv._id), inv>> >>)

\* the loop condition letting a sixth round start
loopAgain_oneMore(ok, retires) == ~ok /\ retires <= RetryLimit

\* line 1186: the condition of the while loop
loopAgain(ok, retires) == ~ok /\ retires < RetryLimit

\* ------------------------------------------------------------------------
\* rechargePulls and getInventory as processes (src/src/trade.ts:1122-1256)
\* ------------------------------------------------------------------------

\* the key getInventory reads and hands back as inventoryCheck.key (line 1129)
checkedKey == inventoriesByUser(InstanceId, UserId)

\* the locals of a rechargePulls call at its start (line 1184); `instance` and
\* `user` are the caller's objects, `reads`, `attempts` and `rejected` count the
\* store reads, the conditional writes and the rejected ones, `readIn` is the
\* value of `retires` when `inventory` was read
startLocals(commit, owner) ==
    [pc |-> "read", commit |-> commit, retires |-> 0,
     inventory |-> InventoryRecord(OldInventoryId, 0, NoTimestamp),
     inventoryCheck |-> 0, instance |-> owner, user |-> owner,
     reads |-> 0, attempts |-> 0, rejected |-> 0, readIn |-> 0]

\* lines 1192-1228: from the inventory getInventory returned to the commit
\* being issued, or to the early return
afterGetInventory(l, inv, stamp, t) ==
    LET got == [l EXCEPT !.inventory = inv, !.inventoryCheck = stamp,
                         !.readIn = l.retires]
    IN IF newPulls(inv, t) = inv.availablePulls
       THEN [got EXCEPT !.pc = "returned"]
       ELSE IF ~l.commit
            THEN [got EXCEPT !.pc = "returned", !.inventory = recharged(inv, t)]
            ELSE [got EXCEPT !.pc = "commit", !.inventory = recharged(inv, t)]

\* lines 1129-1148: the read of getInventory is answered
GetInventoryRead(p) ==
    /\ rp[p].pc = "read"
    /\ LET response == kv[checkedKey]
           l == [rp[p] EXCEPT !.reads = @ + 1]
       IN IF response.versionstamp # 0
          THEN rp' = [rp EXCEPT ![p] =
                        afterGetInventory(l, response.value,
                                          response.versionstamp, now)]
          ELSE rp' = [rp EXCEPT ![p] =
                        [l EXCEPT
                            !.pc = "insert",
                            !.inventory = newInventory(p),
                            !.instance = OwnerRecord(
                                Append(l.instance.inventories, ulid(p))),
                            !.user = OwnerRecord(
                                Append(l.user.inventories, ulid(p)))]]
    /\ UNCHANGED <<kv, lastStamp, now, pull, commits, notKv>>

\* lines 1150-1173: the insert of getInventory is answered
GetInventoryInsert(p) ==
    /\ rp[p].pc = "insert"
    /\ LET l == rp[p]
           ok == checksPass(kv, {[key |-> checkedKey, versionstamp |-> 0]})
       IN IF ok
          THEN /\ kv' = applySets(kv, insertSets(l.inventory, l.instance, l.user),
                                  lastStamp + 1)
               /\ lastStamp' = lastStamp + 1
               /\ rp' = [rp EXCEPT ![p] =
                            afterGetInventory(l, l.inventory, lastStamp + 1, now)]
          ELSE /\ rp' = [rp EXCEPT ![p].pc = "KvError: failed to insert inventory"]
               /\ UNCHANGED <<kv, lastStamp>>
    /\ UNCHANGED <<now, pull, commits, notKv>>

\* lines 1230-1253: the conditional write of rechargePulls is answered
CommitRecharge(p) ==
    /\ rp[p].pc = "commit"
    /\ LET l == [rp[p] EXCEPT !.attempts = @ + 1]
           ok == checksPass(kv, {[key |-> checkedKey,
                                  versionstamp |-> l.inventoryCheck]})
       IN IF ok
          THEN /\ kv' = applySets(kv, rechargeSets(l.inventory), lastStamp + 1)
               /\ lastStamp' = lastStamp + 1
               /\ rp' = [rp EXCEPT ![p] =
                            [l EXCEPT !.pc = "returned",
                                      !.inventoryCheck = lastStamp + 1]]
               /\ commits' = commits \cup {[by |-> p, read |-> l.inventoryCheck]}
          ELSE /\ rp' = [rp EXCEPT ![p] =
                            [l EXCEPT
                                !.retires = @ + 1,
                                !.rejected = @ + 1,
                                !.pc = IF loopAgain(FALSE, l.retires + 1)
                                       THEN "read"
                                       ELSE "KvError: failed to update inventory"]]
               /\ UNCHANGED <<kv, lastStamp, commits>>
    /\ UNCHANGED <<now, pull, notKv>>

\* ------------------------------------------------------------------------
\* The pull commit running beside them (db.addCharacter is not under src/;
\* spec sections 4.4 and 5: one conditional write guarded by the version read,
\* taking one pull off the budget)
\* ------------------------------------------------------------------------

pullStart ==
    [pc |-> "read", inventory |-> InventoryRecord(OldInventoryId, 0, NoTimestamp),
     inventoryCheck |-> 0, done |-> 0]

\* the sets of the pull commit: the inventory under its id and under its user
pullSets(inv) ==
    setsOf(<< <<primaryKey("inventories", inv._id), inv>>,
              <<inventoriesByUser(inv.instance, inv.user), inv>> >>)

PullRead ==
    /\ pull.pc = "read"
    /\ kv[checkedKey].versionstamp # 0
    /\ LET response == kv[checkedKey]
           inv == response.value
       IN pull' =
            IF inv.availablePulls <= 0
            THEN [pull EXCEPT !.pc = "NoPullsError"]
            ELSE [pull EXCEPT
                    !.pc = "commit",
                    !.inventoryCheck = response.versionstamp,
                    !.inventory =
                        [inv EXCEPT
                            !.availablePulls = @ - 1,
                            !.rechargeTimestamp =
                                IF @ = NoTimestamp THEN now ELSE @]]
    /\ UNCHANGED <<kv, lastStamp, now, rp, commits, notKv>>

PullCommit ==
    /\ pull.pc = "commit"
    /\ LET ok == checksPass(kv, {[key |-> checkedKey,
                                  versionstamp |-> pull.inventoryCheck]})
       IN IF ok
          THEN /\ kv' = applySets(kv, pullSets(pull.inventory), lastStamp + 1)
               /\ lastStamp' = lastStamp + 1
               /\ pull' = [pull EXCEPT
                             !.done = @ + 1,
                             !.pc = IF pull.done + 1 < MaxPullCommits
                                    THEN "read" ELSE "done"]
               /\ commits' = commits \cup
                                {[by |-> Puller, read |-> pull.inventoryCheck]}
          ELSE /\ pull' = [pull EXCEPT !.pc = "read"]
               /\ UNCHANGED <<kv, lastStamp, commits>>
    /\ UNCHANGED <<now, rp, notKv>>

\* time passes
Tick ==
    /\ now < MaxNow
    /\ now' = now + TickMins
    /\ UNCHANGED <<kv, lastStamp, rp, pull, commits, notKv>>

\* ------------------------------------------------------------------------
\* getFilteredCharacters (src/src/merge.ts:20-59)
\* ------------------------------------------------------------------------

MaxLikes == 2

\* a field that is absent (party.memberN undefined, a like without characterId)
NoId == "undefined"

\* ids are `${packId}:${id}` strings; characters and media are numbered
\* independently, so a character and a media can carry the same id
Ids == {"anilist:1", "anilist:2", "anilist:3", "anilist:4"}

IdOrder == <<"anilist:1", "anilist:2", "anilist:3", "anilist:4">>

\* Schema.Character as the filter reads it
Character(id, mediaId) == [id |-> id, mediaId |-> mediaId]

\* Schema.Like: { characterId } or { mediaId }
CharacterLike(id) == [characterId |-> id, mediaId |-> NoId]

MediaLike(id) == [characterId |-> NoId, mediaId |-> id]

Likes == {CharacterLike(id) : id \in Ids} \cup {MediaLike(id) : id \in Ids}

\* lines 39-45: the ids of member1..member5, undefined for an empty slot
partyIds(p) == [k \in 1..5 |-> p[k]]

\* lines 47-48: characterId ?? mediaId
likesIds(l) ==
    [k \in 1..Len(l) |->
        IF l[k].characterId # NoId THEN l[k].characterId ELSE l[k].mediaId]

\* Array.prototype.includes / some((x) => x === id)
includes(ids, id) == \E k \in 1..Len(ids) : ids[k] = id

\* lines 50-58
getFilteredCharacters(chars, p, l) ==
    SelectSeq(chars,
              LAMBDA char : /\ ~includes(partyIds(p), char.id)
                            /\ ~includes(likesIds(l), char.id))

\* the elements of an array
Elements(arr) == {arr[k] : k \in 1..Len(arr)}

\* ------------------------------------------------------------------------
\* utils.shuffle (src/src/utils.ts:71-82); arrays are 1-based sequences, the
\* loop index i and the random index swap keep the 0-based values of the code
\* ------------------------------------------------------------------------

MaxLength == 4

\* a shuffle drawing swap from the whole array in every iteration
swapChoices_wholeArray(i, length) == 0..(length - 1)

\* line 77: Math.floor(Math.random() * (i + 1)), Math.random() in [0, 1)
swapChoices(i, length) == 0..i

\* lines 78-80: temp = array[swap]; array[swap] = array[i]; array[i] = temp
exchange(arr, i, swap) ==
    [arr EXCEPT ![swap + 1] = arr[i + 1], ![i + 1] = arr[swap + 1]]

\* the loop of lines 72-81 from index i on, rnd[i + 1] being the swap of
\* iteration i
RECURSIVE shuffleFrom(_, _, _)
shuffleFrom(arr, rnd, i) ==
    IF i >= Len(arr) THEN arr
    ELSE shuffleFrom(exchange(arr, i, rnd[i + 1]), rnd, i + 1)

shuffle(arr, rnd) == shuffleFrom(arr, rnd, 0)

\* the sequences of values Math.random can make swap take for an array of
\* the given length
RandomSeqs(length) ==
    {rnd \in [1..length -> 0..Max(length - 1, 0)] :
        \A k \in 1..length : rnd[k] \in swapChoices(k - 1, length)}

\* ------------------------------------------------------------------------
\* packs.pool (src/src/packs.ts:738-803) and the bracket cache it reads,
\* written by packs/anilist/pool.ts
\* ------------------------------------------------------------------------

\* an argument or a field that is not given
Nothing == "nothing"

\* JSON.stringify(range) of the brackets of the weight table, in table order
ranges ==
    <<"[1000,50000]", "[50000,100000]", "[100000,200000]",
      "[200000,400000]", "[400000,null]">>

Brackets == {ranges[k] : k \in 1..Len(ranges)}

CharacterRoles == {"MAIN", "SUPPORTING", "BACKGROUND"}

\* the key the cache holds no record for
NoBracket == [missing |-> TRUE]

\* Pool['']['ALL'][number]
PoolEntry(id, mediaId, rating) ==
    [id |-> id, mediaId |-> mediaId, rating |-> rating]

\* the characters the batch job can find: an entry and the role of the
\* character in its media; the first two are of the same media
Catalog ==
    <<[entry |-> PoolEntry("anilist:1", "anilist:10", 1), role |-> "MAIN"],
      [entry |-> PoolEntry("anilist:2", "anilist:10", 2), role |-> "SUPPORTING"],
      [entry |-> PoolEntry("anilist:3", "anilist:20", 1), role |-> "MAIN"]>>

\* the entries of the catalog the batch job found in bracket key for role r
\* ("ALL": for any role); where[k] is the bracket of the k-th character
found(where, key, r) ==
    LET hits == SelectSeq([k \in 1..Len(Catalog) |-> k],
                          LAMBDA k : /\ where[k] = key
                                     /\ r \in {"ALL", Catalog[k].role})
    IN [j \in 1..Len(hits) |-> Catalog[hits[j]].entry]

\* packs/anilist/pool.ts:153-158,263-265: the record of a bracket, written
\* only when the bracket has a character
cacheOf(where) ==
    [key \in Brackets |->
        IF Len(found(where, key, "ALL")) > 0
        THEN [r \in CharacterRoles \cup {"ALL"} |-> found(where, key, r)]
        ELSE NoBracket]

\* a character of manifest.characters.new after packs.aggregate: its first
\* media (Nothing when it has none) and its rating
Aggregated(id, media, rating) == [id |-> id, media |-> media, rating |-> rating]

\* a manifest; new is Nothing when it has no characters.new array
Manifest(id, new) == [id |-> id, new |-> new]

RECURSIVE flatAll(_)
flatAll(lists) ==
    IF lists = <<>> THEN <<>> ELSE Head(lists) \o flatAll(Tail(lists))

\* lines 751-755: the ALL bucket of every record of the cache
everyAll(cache) ==
    flatAll([k \in 1..Len(ranges) |->
                IF cache[ranges[k]] = NoBracket THEN <<>>
                ELSE cache[ranges[k]]["ALL"]])

\* lines 761-786: the characters of the manifests that have a media
fromPacks(manifests) ==
    flatAll([k \in 1..Len(manifests) |->
                IF manifests[k].new = Nothing THEN <<>>
                ELSE LET chars == SelectSeq(manifests[k].new,
                                            LAMBDA c : c.media # Nothing)
                     IN [j \in 1..Len(chars) |->
                            PoolEntry(chars[j].id, chars[j].media,
                                      chars[j].rating)]])

\* a filter that records the media of every entry it looks at
seen_anyRating(occurrences, entry, exact) == occurrences \cup {entry.mediaId}

\* lines 794-802: the occurrences after the filter looked at entry
seen(occurrences, entry, exact) ==
    IF exact # Undefined /\ entry.rating # exact THEN occurrences
    ELSE occurrences \cup {entry.mediaId}

\* a filter that keeps every entry of a media
kept_everyOccurrence(occurrences, entry, exact) ==
    ~(exact # Undefined /\ entry.rating # exact)

\* lines 793-802: the filter callback
kept(occurrences, entry, exact) ==
    /\ ~(exact # Undefined /\ entry.rating # exact)
    /\ entry.mediaId \notin occurrences

\* line 793: pool.filter(...) from index k on
RECURSIVE filterFrom(_, _, _, _)
filterFrom(entries, k, occurrences, exact) ==
    IF k > Len(entries) THEN <<>>
    ELSE (IF kept(occurrences, entries[k], exact) THEN <<entries[k]>> ELSE <<>>)
            \o filterFrom(entries, k + 1,
                          seen(occurrences, entries[k], exact), exact)

\* lines 749-757: the entries of the cache the pool starts from; reading a
\* bucket of a record the cache does not hold throws
cached(cache, key, r, exact) ==
    IF exact # Undefined THEN [status |-> "ok", pool |-> everyAll(cache)]
    ELSE IF cache[key] = NoBracket THEN [status |-> "TypeError", pool |-> <<>>]
    ELSE [status |-> "ok",
          pool |-> cache[key][IF r = Nothing THEN "ALL" ELSE r]]

\* lines 749-786: the pool before it is shuffled
gathered(cache, manifests, key, r, exact) ==
    LET c == cached(cache, key, r, exact)
    IN IF c.status = "ok"
       THEN [status |-> "ok", pool |-> c.pool \o fromPacks(manifests)]
       ELSE c

\* ------------------------------------------------------------------------
\* utils.rng (src/src/utils.ts:110-141)
\* ------------------------------------------------------------------------

MaxEntries == 3

\* line 116: the sum the chances must have
Hundred == 100

\* an entry `chance: value` of the table
TableEntry(chance, value) == [chance |-> chance, value |-> value]

\* the property key of a numeric property name: String(n), as a sign and the
\* decimal digits
RECURSIVE digitsOf(_)
digitsOf(n) == IF n < 10 THEN <<n>> ELSE Append(digitsOf(n \div 10), n % 10)

toKey(n) == [minus |-> n < 0, digits |-> digitsOf(IF n < 0 THEN -n ELSE n)]

\* line 113: parseInt(key)
RECURSIVE digitsValue(_)
digitsValue(digits) ==
    IF digits = <<>> THEN 0
    ELSE 10 * digitsValue(SubSeq(digits, 1, Len(digits) - 1))
            + digits[Len(digits)]

parseInt(key) ==
    IF key.minus THEN -digitsValue(key.digits) ELSE digitsValue(key.digits)

\* the order of Object.keys / Object.values: the keys that are array indices
\* (non-negative integers) ascending, then the other keys in insertion order
RECURSIVE ascending(_)
ascending(entries) ==
    IF entries = <<>> THEN <<>>
    ELSE LET least == CHOOSE k \in 1..Len(entries) :
                         \A j \in 1..Len(entries) :
                             entries[k].chance <= entries[j].chance
         IN <<entries[least]>> \o
                ascending(SelectSeq(entries,
                                    LAMBDA e : e.chance # entries[least].chance))

ownProperties(d) ==
    ascending(SelectSeq(d, LAMBDA e : e.chance >= 0))
        \o SelectSeq(d, LAMBDA e : e.chance < 0)

\* line 111: Object.values(dict)
values(d) == [k \in 1..Len(d) |-> ownProperties(d)[k].value]

\* line 113: Object.keys(dict).map((n) => parseInt(n))
chancesOf(d) == [k \in 1..Len(d) |-> parseInt(toKey(ownProperties(d)[k].chance))]

\* line 115: chances.reduce((a, b) => a + b), of a non-empty array
RECURSIVE reduceSum(_)
reduceSum(chances) ==
    IF Len(chances) = 1 THEN chances[1]
    ELSE reduceSum(SubSeq(chances, 1, Len(chances) - 1)) + chances[Len(chances)]

\* an rng that gives every entry one item at least
copies_atLeastOne(chance) == Max(chance, 1)

\* line 126: for (let y = 0; y < chances[i]; y++) pushes chances[i] times,
\* never for a chance below 1
copies(chance) == Max(chance, 0)

\* lines 121-130: the array `_` of indices (0-based), index i copies(chances[i])
\* times
RECURSIVE expand(_, _)
expand(chances, i) ==
    IF i >= Len(chances) THEN <<>>
    ELSE [y \in 1..copies(chances[i + 1]) |-> i] \o expand(chances, i + 1)

\* lines 110-141; first is the position (0-based) in `_` of the item that
\* utils.shuffle leaves at _[0]: shuffle leaves there the item of the last
\* iteration whose swap was 0, which can be any iteration
rng(d, first) ==
    IF d = <<>>
    THEN [status |-> "TypeError", value |-> Nothing, chance |-> Nothing]
    ELSE IF reduceSum(chancesOf(d)) # Hundred
    THEN [status |-> "Error", value |-> Nothing, chance |-> Nothing]
    ELSE LET index == expand(chancesOf(d), 0)[first + 1]
         IN [status |-> "ok", value |-> values(d)[index + 1],
             chance |-> chancesOf(d)[index + 1]]

\* the positions first can take: every position of `_`
firsts(d) ==
    IF d = <<>> \/ reduceSum(chancesOf(d)) # Hundred THEN {0}
    ELSE 0..(Len(expand(chancesOf(d), 0)) - 1)

\* ------------------------------------------------------------------------
\* gacha.rngPull: sample, build the pool, validate, commit (spec.md 4.4; the
\* calls and results asserted in src/tests/gacha.test.ts)
\* ------------------------------------------------------------------------

MaxPool == 2

\* an entry of the pool and whether the character fetched for it passes the
\* validation against the sampled variables
Candidate(id, valid) == [id |-> id, valid |-> valid]

\* the inventory the store keeps for the user
UserInventory(pulls, guarantees, owns, since) ==
    [availablePulls |-> pulls, guarantees |-> guarantees, characters |-> owns,
     rechargeTimestamp |-> since]

\* src/src/utils.ts:294-303: the time in minutes plus RECHARGE_MINS, in seconds
rechargeTimestamp(v) == (v + RECHARGE_MINS) * 60

\* the answer of the store to the commit of a pull: `failure` is a rejection
\* of the backend unrelated to the pull, Nothing when there is none
addCharacter(inv, id, guaranteed, failure) ==
    IF failure # Nothing THEN failure
    ELSE IF guaranteed # Undefined /\ guaranteed \notin inv.guarantees
    THEN "NO_GUARANTEES"
    ELSE IF guaranteed = Undefined /\ inv.availablePulls <= 0
    THEN "NO_PULLS_AVAILABLE"
    ELSE IF id \in inv.characters THEN "CHARACTER_EXISTS"
    ELSE "ok"

\* the inventory after an accepted commit
added(inv, id, guaranteed) ==
    [inv EXCEPT
        !.characters = @ \cup {id},
        !.availablePulls = IF guaranteed = Undefined THEN @ - 1 ELSE @,
        !.guarantees = IF guaranteed = Undefined THEN @ ELSE @ \ {guaranteed}]

\* a pull for which an owned character is a fatal error
onRejection_existsIsFatal(response) ==
    CASE response = "NO_PULLS_AVAILABLE" -> "NoPullsError"
      [] OTHER -> "Error"

\* what rngPull does with a rejected commit: an owned character is skipped,
\* an exhausted budget is NoPullsError, anything else a plain Error
\* (gacha.test.ts:1709-1804, 1806-1904, 1906-2003)
onRejection(response) ==
    CASE response = "CHARACTER_EXISTS" -> "continue"
      [] response = "NO_PULLS_AVAILABLE" -> "NoPullsError"
      [] OTHER -> "Error"

\* a pull that commits whether or not it was given a userId
mayCommit_always(user) == TRUE

\* the commit is made only for a pull with a userId (gacha.test.ts:855-968)
mayCommit(user) == user # Nothing

\* how often utils.rng is called: for the bracket and the role, not at all
\* for a guaranteed pull (gacha.test.ts:645,676; 128-152)
draws(guaranteed) == IF guaranteed = Undefined THEN 2 ELSE 0

Step(name, id, passed) == [step |-> name, id |-> id, passed |-> passed]

Outcome(status, id, timestamp) ==
    [status |-> status, character |-> id, rechargeTimestamp |-> timestamp]

\* a sequence without its k-th element: pool.splice(k, 1)
without(s, k) == SubSeq(s, 1, k - 1) \o SubSeq(s, k + 1, Len(s))

\* the step of rngPull that draws the variables
SampleVariables ==
    /\ gpc = "sample"
    /\ steps' = Append(steps, Step("sample", Nothing, draws(guarantee) = 2))
    /\ gpc' = "pool"
    /\ UNCHANGED <<byUser, guarantee, candidates, chosen, inventory, before,
                   answers, outcome, notPull>>

\* the step that awaits packs.pool; an empty pool ends the pull in PoolError
BuildPool ==
    /\ gpc = "pool"
    /\ steps' = Append(steps, Step("pool", Nothing, candidates # <<>>))
    /\ gpc' = "pick"
    /\ UNCHANGED <<byUser, guarantee, candidates, chosen, inventory, before,
                   answers, outcome, notPull>>

\* one entry is taken at random out of the pool and the character fetched for
\* it is validated; a pull without userId returns it without a commit
PickAndValidate ==
    /\ gpc = "pick"
    /\ IF candidates = <<>>
       THEN /\ outcome' = Outcome("PoolError", Nothing, Nothing)
            /\ gpc' = "done"
            /\ UNCHANGED <<candidates, chosen, steps>>
       ELSE \E k \in 1..Len(candidates) :
               LET entry == candidates[k]
               IN /\ candidates' = without(candidates, k)
                  /\ steps' = Append(steps, Step("validate", entry.id, entry.valid))
                  /\ IF ~entry.valid
                     THEN UNCHANGED <<chosen, outcome, gpc>>
                     ELSE /\ chosen' = entry.id
                          /\ IF mayCommit(byUser)
                             THEN gpc' = "commit" /\ UNCHANGED outcome
                             ELSE /\ outcome' = Outcome("ok", entry.id, Nothing)
                                  /\ gpc' = "done"
    /\ UNCHANGED <<byUser, guarantee, inventory, before, answers, notPull>>

\* the commit of the validated character and what rngPull makes of the answer
CommitPull ==
    /\ gpc = "commit"
    /\ \E failure \in {Nothing, "INTERNAL"} :
          LET response == addCharacter(inventory, chosen, guarantee, failure)
              then == onRejection(response)
          IN /\ steps' = Append(steps, Step("commit", chosen, response = "ok"))
             /\ answers' = Append(answers, response)
             /\ IF response = "ok"
                THEN /\ inventory' = added(inventory, chosen, guarantee)
                     /\ outcome' = Outcome("ok", chosen, Nothing)
                     /\ gpc' = "done"
                     /\ UNCHANGED chosen
                ELSE /\ UNCHANGED inventory
                     /\ IF then = "continue"
                        THEN /\ gpc' = "pick"
                             /\ chosen' = Nothing
                             /\ UNCHANGED outcome
                        ELSE /\ outcome' =
                                  Outcome(then, response,
                                          IF then = "NoPullsError"
                                          THEN rechargeTimestamp(
                                                  inventory.rechargeTimestamp)
                                          ELSE Nothing)
                             /\ gpc' = "done"
                             /\ UNCHANGED chosen
    /\ UNCHANGED <<byUser, guarantee, candidates, before, notPull>>

\* ------------------------------------------------------------------------
\* The guild cache of packs.ts: all (78-123), install (215-254), uninstall
\* (256-296). db.getInstancePacks, db.addPack and db.removePack are awaited;
\* other calls run between an await and its continuation.
\* ------------------------------------------------------------------------

Guilds == {"guild_1", "guild_2"}

\* the packs of the store: one public, one private; "pack_9" does not exist
PublicPacks == {"pack_1"}

PrivatePacks == {"pack_2"}

PackIds == PublicPacks \cup PrivatePacks \cup {"pack_9"}

AllCallers == {"all_1", "all_2"}

Changers == {"change_1"}

\* `guildId in packs.cachedGuilds` is false
NoCache == [cached |-> FALSE]

\* pack.manifest.conflicts ?? []
conflicts(id) == IF id = "pack_1" THEN {"anilist:1"} ELSE {}

\* lines 107-116: the entry all() writes for the packs it read
cacheEntry(packs) ==
    [cached |-> TRUE, packs |-> packs,
     disables |-> UNION {conflicts(id) : id \in packs}]

\* db.addPack(instance, userId, id): the error it throws, "ok" when it
\* installs the pack
addPack(id) ==
    CASE id \in PublicPacks -> "ok"
      [] id \in PrivatePacks -> "PACK_PRIVATE"
      [] OTHER -> "PACK_NOT_FOUND"

\* db.removePack(instance, id): the error it throws, "ok" when it removes
\* the pack
removePack(packs, id) ==
    CASE id \notin PublicPacks \cup PrivatePacks -> "PACK_NOT_FOUND"
      [] id \notin packs -> "PACK_NOT_INSTALLED"
      [] OTHER -> "ok"

\* the locals of a call that is not running carry nothing
idleCall == [pc |-> "idle", guildId |-> "guild_1", _packs |-> {}]

idleChange ==
    [pc |-> "idle", op |-> "install", guildId |-> "guild_1", id |-> "pack_1"]

\* lines 86-100: all() up to its first await; a cached guild is answered from
\* the cache
AllBegin(c, g) ==
    /\ allCalls[c].pc = "idle"
    /\ allCalls' = [allCalls EXCEPT
                      ![c] = IF cachedGuilds[g] # NoCache THEN idleCall
                             ELSE [idleCall EXCEPT !.guildId = g, !.pc = "get"]]
    /\ UNCHANGED <<cachedGuilds, installed, changes, notCache>>

\* lines 102-105: the store answers db.getInstancePacks
AllGet(c) ==
    /\ allCalls[c].pc = "get"
    /\ allCalls' = [allCalls EXCEPT
                      ![c].pc = "set",
                      ![c]._packs = installed[allCalls[c].guildId]]
    /\ UNCHANGED <<cachedGuilds, installed, changes, notCache>>

\* lines 107-122: the continuation writes the cache entry and returns
AllSet(c) ==
    /\ allCalls[c].pc = "set"
    /\ cachedGuilds' = [cachedGuilds EXCEPT
                          ![allCalls[c].guildId] = cacheEntry(allCalls[c]._packs)]
    /\ allCalls' = [allCalls EXCEPT ![c] = idleCall]
    /\ UNCHANGED <<installed, changes, notCache>>

\* lines 218-229 / 259-270: install() or uninstall() up to the await of
\* db.addPack / db.removePack
ChangeBegin(i, op, g, id) ==
    /\ changes[i].pc = "idle"
    /\ changes' = [changes EXCEPT
                     ![i] = [pc |-> "store", op |-> op, guildId |-> g, id |-> id]]
    /\ UNCHANGED <<cachedGuilds, installed, allCalls, notCache>>

\* line 230 / 271: the store installs or removes the pack, or throws; a throw
\* goes to the catch of lines 242-253 / 286-295 and leaves the cache alone
ChangeStore(i) ==
    /\ changes[i].pc = "store"
    /\ LET l == changes[i]
           answer == IF l.op = "install" THEN addPack(l.id)
                     ELSE removePack(installed[l.guildId], l.id)
       IN IF answer = "ok"
          THEN /\ installed' = [installed EXCEPT
                                  ![l.guildId] = IF l.op = "install"
                                                 THEN @ \cup {l.id}
                                                 ELSE @ \ {l.id}]
               /\ changes' = [changes EXCEPT ![i].pc = "delete"]
          ELSE /\ changes' = [changes EXCEPT ![i] = idleChange]
               /\ UNCHANGED installed
    /\ UNCHANGED <<cachedGuilds, allCalls, notCache>>

\* line 233 / 274: delete cachedGuilds[guildId], then the message is returned
ChangeDelete(i) ==
    /\ changes[i].pc = "delete"
    /\ cachedGuilds' = [cachedGuilds EXCEPT ![changes[i].guildId] = NoCache]
    /\ changes' = [changes EXCEPT ![i] = idleChange]
    /\ UNCHANGED <<installed, allCalls, notCache>>

\* ------------------------------------------------------------------------
\* packs.isDisabled (src/src/packs.ts:125-136), a synchronous read of the
\* guild cache
\* ------------------------------------------------------------------------

\* vtubersManifest.conflicts: the built-in conflict list
vtubersConflicts == {"anilist:9"}

\* the ids isDisabled is asked about: a conflict of pack_1, a built-in
\* conflict, and an id nothing conflicts with
AskedIds == {"anilist:1", "anilist:9", "anilist:2"}

\* lines 126-135
isDisabled(id, guildId) ==
    LET disables == vtubersConflicts \cup
                        (IF cachedGuilds[guildId] # NoCache
                         THEN cachedGuilds[guildId].disables ELSE {})
    IN id \in disables

NotAsked == [asked |-> FALSE]

IsDisabled(id, g) ==
    /\ disabled' = [asked |-> TRUE, id |-> id, guildId |-> g,
                    returned |-> isDisabled(id, g)]
    /\ UNCHANGED notQuery

\* ------------------------------------------------------------------------
\* utils.fetchWithRetry (src/src/utils.ts:88-108)
\* ------------------------------------------------------------------------

Fetchers == {"fetch_1", "fetch_2"}

\* fetch resolves with a response whatever its HTTP status is, and rejects
\* only when no response was received
Statuses == {"200 OK", "429 Too Many Requests"}
NetworkErrors == {"connection reset", "dns error"}

\* sleep(0.5): secs * 1000 milliseconds (lines 84-86, 101)
HalfSecondMs == 500

idleRequest ==
    [pc |-> "idle", n |-> 0, attempts |-> <<>>, sleeps |-> <<>>,
     settled |-> "pending"]

\* fetchWithRetry(input, init): n = 0, fetch is issued (lines 88-94)
FetchBegin(c) ==
    /\ requests[c].pc = "idle"
    /\ requests' = [requests EXCEPT ![c].pc = "fetching"]
    /\ UNCHANGED notFetch

\* .then((result) => resolve(result)) (line 95)
FetchResolved(c, status) ==
    /\ requests[c].pc = "fetching"
    /\ requests' = [requests EXCEPT
           ![c].pc = "resolved",
           ![c].attempts = Append(@, status),
           ![c].settled = status]
    /\ UNCHANGED notFetch

\* .catch: reject when n >= 2, otherwise start the sleep (lines 96-101)
FetchRejected(c, err) ==
    /\ requests[c].pc = "fetching"
    /\ requests' = [requests EXCEPT
           ![c].pc = IF requests[c].n >= 2 THEN "rejected" ELSE "sleeping",
           ![c].attempts = Append(@, err),
           ![c].settled = IF requests[c].n >= 2 THEN err ELSE @]
    /\ UNCHANGED notFetch

\* the sleep is over: fetchWithRetry(input, init, n + 1), whose outcome
\* settles the outer promise (lines 101-105)
FetchAgain(c) ==
    /\ requests[c].pc = "sleeping"
    /\ requests' = [requests EXCEPT
           ![c].pc = "fetching",
           ![c].n = @ + 1,
           ![c].sleeps = Append(@, HalfSecondMs)]
    /\ UNCHANGED notFetch

FetchStep(c) ==
    \/ FetchBegin(c)
    \/ \E status \in Statuses : FetchResolved(c, status)
    \/ \E err \in NetworkErrors : FetchRejected(c, err)
    \/ FetchAgain(c)

\* ------------------------------------------------------------------------
\* Rating (src/rating.ts): new Rating({ role, popularity }).stars, with the
\* thresholds the fixtures of tests/gacha.test.ts:2023-2177 lie between
\* ------------------------------------------------------------------------

\* the tier of a popularity when no role is given
bracketOf(popularity) ==
    IF popularity < 50000 THEN 1
    ELSE IF popularity < 200000 THEN 2
    ELSE IF popularity < 400000 THEN 3
    ELSE IF popularity < 1000000 THEN 4
    ELSE 5

\* a mutant of mainTier: the step up wraps around
mainTier_wraps(tier) == IF tier >= 4 THEN 1 ELSE tier + 1

\* the tier of a Main character whose popularity reaches the second tier
mainTier(tier) == IF tier >= 4 THEN 5 ELSE tier + 1

\* the tier when a role is given
roleTier(characterRole, popularity) ==
    IF characterRole = "BACKGROUND" \/ popularity < 50000 THEN 1
    ELSE IF popularity < 200000
         THEN (IF characterRole = "MAIN" THEN mainTier(2) ELSE 2)
    ELSE IF popularity < 400000
         THEN (IF characterRole = "MAIN" THEN mainTier(3) ELSE 3)
    ELSE (IF characterRole = "MAIN" THEN mainTier(4) ELSE 4)

starsOf(characterRole, popularity) ==
    IF characterRole = Nothing
    THEN bracketOf(popularity)
    ELSE roleTier(characterRole, popularity)

\* the constructor is called for both popularity values
Rate ==
    /\ rated = <<>>
    /\ rated' = <<starsOf(ratedRole, popularities[1]),
                  starsOf(ratedRole, popularities[2])>>
    /\ UNCHANGED <<ratedRole, popularities, notRating>>

\* ------------------------------------------------------------------------
\* The cache builder (src/packs/anilist/pool.ts): for every bracket, every
\* media page and every character page of every media, with the catalog's
\* rate limiting
\* ------------------------------------------------------------------------

\* page sizes of the catalog (perPage: 50 and perPage: 25 in the queries)
MediaPerPage == 1
CharactersPerPage == 1

\* how many times the catalog may answer 'Too Many Requests' in one build
MaxRejections == 2

\* gacha.variables.ranges in the order of the weight table; isNaN marks the
\* open bracket, whose upper limit is NaN
rangeValues ==
    <<[lo |-> 1000, hi |-> 50000, isNaN |-> FALSE],
      [lo |-> 50000, hi |-> 100000, isNaN |-> FALSE],
      [lo |-> 100000, hi |-> 200000, isNaN |-> FALSE],
      [lo |-> 200000, hi |-> 400000, isNaN |-> FALSE],
      [lo |-> 400000, hi |-> 0, isNaN |-> TRUE]>>

\* Object.values(gacha.variables.ranges): the keys 1, 3, 9, 22, 65 are
\* integer keys and are enumerated in ascending order (line 20)
builderRanges == [k \in 1..Len(rangeValues) |-> rangeValues[Len(rangeValues) + 1 - k]]

\* JSON.stringify(range) (line 153)
stringify(bracket) ==
    ranges[CHOOSE k \in 1..Len(rangeValues) : rangeValues[k] = bracket]

\* the catalog: media 3 lists the characters 1 and 2, media 4 lists the
\* character 2
MediaOrder == <<3, 4>>
MediaIds == {3, 4}
CharacterIds == {1, 2}
cast == [m \in MediaIds |-> IF m = 3 THEN <<1, 2>> ELSE <<2>>]

roleIn(character, m) ==
    IF character = 1 THEN "MAIN"
    ELSE IF m = 3 THEN "SUPPORTING" ELSE "BACKGROUND"

\* `anilist:${id}` (lines 195, 198)
anilistId(n) == IdOrder[n]

edge(character, m) ==
    [characterRole |-> roleIn(character, m),
     node |-> [id |-> m, popularity |-> popularityOf[m],
               isAdult |-> m \in adultMedia]]

\* character.media.edges: media(sort: POPULARITY_DESC) (lines 68-77)
edgesOf(character) ==
    IF character \in missingEdges THEN <<>>
    ELSE IF character = 1 THEN <<edge(1, 3)>>
    ELSE IF popularityOf[3] >= popularityOf[4]
         THEN <<edge(2, 3), edge(2, 4)>>
         ELSE <<edge(2, 4), edge(2, 3)>>

\* the media the catalog returns for popularity_greater, popularity_lesser
\* and isAdult: false (lines 56-61, 167-171)
served(bracket) ==
    LET matches(m) ==
            /\ m \notin adultMedia
            /\ IF inclusiveFilter THEN popularityOf[m] >= bracket.lo
                                  ELSE popularityOf[m] > bracket.lo
            /\ \/ bracket.isNaN
               \/ IF inclusiveFilter THEN popularityOf[m] <= bracket.hi
                                     ELSE popularityOf[m] < bracket.hi
    IN SelectSeq(MediaOrder, matches)

pageOf(seq, page, perPage) ==
    SubSeq(seq, (page - 1) * perPage + 1, Min(page * perPage, Len(seq)))

hasNextPage(seq, page, perPage) == page * perPage < Len(seq)

emptyBuckets ==
    [b \in {"ALL", "MAIN", "BACKGROUND", "SUPPORTING"} |-> <<>>]

\* a mutant of inBracket: the upper limit is not checked
inBracket_noUpperLimit(popularity, bracket) ==
    /\ popularity # 0
    /\ popularity >= bracket.lo

\* lines 205-209
inBracket(popularity, bracket) ==
    /\ popularity # 0
    /\ popularity >= bracket.lo
    /\ (bracket.isNaN \/ popularity <= bracket.hi)

\* nodes.forEach (lines 192-214)
RECURSIVE collect(_, _, _)
collect(buckets, bracket, nodes) ==
    IF nodes = <<>> THEN buckets
    ELSE LET character == Head(nodes)
             edges == edgesOf(character)
             first == edges[1]
             entry == PoolEntry(anilistId(character), anilistId(first.node.id),
                                starsOf(first.characterRole,
                                        first.node.popularity))
         IN IF /\ edges # <<>>
               /\ ~first.node.isAdult
               /\ inBracket(first.node.popularity, bracket)
            THEN collect([buckets EXCEPT
                             !["ALL"] = Append(@, entry),
                             ![first.characterRole] = Append(@, entry)],
                         bracket, Tail(nodes))
            ELSE collect(buckets, bracket, Tail(nodes))

\* the end of a bracket (lines 263-265), then the next bracket (151-161) or
\* the end of the build (268-271)
finishRange(j) ==
    LET written == IF Len(j.buckets["ALL"]) > 0
                   THEN [j.cache EXCEPT
                            ![stringify(builderRanges[j.rangeIdx])] = j.buckets]
                   ELSE j.cache
    IN IF j.rangeIdx = Len(builderRanges)
       THEN [j EXCEPT !.cache = written, !.pc = "written"]
       ELSE [j EXCEPT !.cache = written, !.rangeIdx = @ + 1,
                      !.mediaPage = 1, !.inPage = 0, !.charactersPage = 1,
                      !.buckets = emptyBuckets, !.pc = "queryMedia"]

\* the end of a media page (lines 243-248)
afterMediaPage(j) ==
    IF hasNextPage(served(builderRanges[j.rangeIdx]), j.mediaPage, MediaPerPage)
    THEN [j EXCEPT !.mediaPage = @ + 1, !.inPage = 0, !.pc = "queryMedia"]
    ELSE finishRange(j)

RECURSIVE nextMedia(_)

\* a page of characters of the media m arrived: the nodes are collected,
\* then the next page is requested or the next media begins (lines 183-221)
afterCharacters(j, m) ==
    LET nodes == pageOf(cast[m], j.charactersPage, CharactersPerPage)
        collected == [j EXCEPT
            !.buckets = collect(@, builderRanges[j.rangeIdx], nodes),
            !.characterPages = Append(@, <<j.rangeIdx, m, j.charactersPage>>)]
    IN IF hasNextPage(cast[m], j.charactersPage, CharactersPerPage)
       THEN [collected EXCEPT !.charactersPage = @ + 1,
                              !.pc = "queryCharacters"]
       ELSE nextMedia(collected)

\* for (const { id, characters: firstPage } of media): the first page of
\* characters came with the media (lines 180-187)
nextMedia(j) ==
    LET page == pageOf(served(builderRanges[j.rangeIdx]), j.mediaPage,
                       MediaPerPage)
    IN IF j.inPage < Len(page)
       THEN afterCharacters([j EXCEPT !.inPage = @ + 1, !.charactersPage = 1],
                            page[j.inPage + 1])
       ELSE afterMediaPage(j)

\* a mutant of retried: the page the catalog refused is given up
retried_pageSkipped(j) ==
    IF j.pc = "queryMedia"
    THEN afterMediaPage([j EXCEPT !.naps = Append(@, 60)])
    ELSE nextMedia([j EXCEPT !.naps = Append(@, 60)])

\* catch: 'Too Many Requests' -> await utils.sleep(60); continue, which
\* issues the request of the same page again (lines 224-232, 250-258)
retried(j) == [j EXCEPT !.naps = Append(@, 60)]

\* queryMedia resolved (lines 166-171)
MediaAnswered ==
    /\ job.pc = "queryMedia"
    /\ job' = nextMedia([job EXCEPT
                 !.inPage = 0,
                 !.mediaPages = Append(@, <<job.rangeIdx, job.mediaPage>>)])
    /\ UNCHANGED <<popularityOf, adultMedia, missingEdges, inclusiveFilter,
                   notBuild>>

\* queryCharacters resolved (lines 187-190)
CharactersAnswered ==
    /\ job.pc = "queryCharacters"
    /\ job' = afterCharacters(job,
                 pageOf(served(builderRanges[job.rangeIdx]), job.mediaPage,
                        MediaPerPage)[job.inPage])
    /\ UNCHANGED <<popularityOf, adultMedia, missingEdges, inclusiveFilter,
                   notBuild>>

\* a request rejected with 'Too Many Requests' (lines 224-232, 250-258)
TooManyRequests ==
    /\ job.pc \in {"queryMedia", "queryCharacters"}
    /\ Len(job.naps) < MaxRejections
    /\ job' = [retried(job) EXCEPT !.errors = Append(@, "Too Many Requests")]
    /\ UNCHANGED <<popularityOf, adultMedia, missingEdges, inclusiveFilter,
                   notBuild>>

\* a request rejected with anything else: throw e (lines 234, 260)
OtherError ==
    /\ job.pc \in {"queryMedia", "queryCharacters"}
    /\ job' = [job EXCEPT !.errors = Append(@, "Internal Server Error"),
                          !.pc = "aborted"]
    /\ UNCHANGED <<popularityOf, adultMedia, missingEdges, inclusiveFilter,
                   notBuild>>

\* ------------------------------------------------------------------------
\* steal.getInactiveDays and steal.getChances (src/steal.ts), as the
\* fixtures of the 'chances' test fix them; times are in hours
\* ------------------------------------------------------------------------

\* lastPull: undefined
NeverPulled == -1

\* the hours since the last pull that are enumerated: up to 31 days and a
\* few hours
MaxHoursAgo == 750

\* the inactive days of an owner who never pulled: more than any threshold
Forever == 2147483647

\* utils.diffInDays (src/src/utils.ts:328-330):
\* Math.floor(Math.abs(a - b) / 3600000 / 24), a and b in hours here
diffInDays(a, b) == (IF a >= b THEN a - b ELSE b - a) \div 24

\* the current time is hoursAgo after the last pull
getInactiveDays(hoursAgo) ==
    IF hoursAgo = NeverPulled THEN Forever ELSE diffInDays(hoursAgo, 0)

baseChance(rating) ==
    CASE rating = 5 -> 1
      [] rating = 4 -> 3
      [] rating = 3 -> 15
      [] rating = 2 -> 25
      [] OTHER -> 50

inactivityBonus(inactiveDays) ==
    IF inactiveDays >= 30 THEN 90
    ELSE IF inactiveDays >= 14 THEN 50
    ELSE IF inactiveDays >= 7 THEN 25
    ELSE 0

\* a mutant of atMost90: the sum is not capped
atMost90_uncapped(sum) == sum

atMost90(sum) == Min(sum, 90)

getChances(rating, inactiveDays) ==
    atMost90(baseChance(rating) + inactivityBonus(inactiveDays))

GetChances ==
    /\ stealChance = 0
    /\ stealChance' = getChances(cardRating, getInactiveDays(lastPullAgo))
    /\ UNCHANGED <<cardRating, lastPullAgo, notChance>>

\* ------------------------------------------------------------------------
\* steal.pre and steal.attempt (src/steal.ts), as the 'attempt' and '/steal'
\* tests fix them: the cooldown is looked at before the character is looked
\* for, a failed attempt starts the cooldown
\* ------------------------------------------------------------------------

Users == {"user_id", "another_user_id"}

\* how far the clock runs, how long a failed attempt blocks the user, and
\* how many draws are followed
MaxClock == 4
CooldownTicks == 2
MaxDraws == 3

NoMessage == [user |-> Nothing, message |-> Nothing, until |-> 0]

Message(u, text, until) == [user |-> u, message |-> text, until |-> until]

\* a mutant of onCooldown: the last moment of the cooldown is let through
onCooldown_endsEarly(timestamp, t) == timestamp > t + 1

\* inventory.stealTimestamp lies in the future
onCooldown(timestamp, t) == timestamp > t

\* steal.pre: the chance and the Attempt button are shown, or the cooldown
StealPre(u) ==
    /\ shown' = IF onCooldown(cooldowns[u], clock)
                THEN Message(u, "steal-cooldown", cooldowns[u])
                ELSE IF holder = u
                THEN Message(u, "stealing-from-yourself", 0)
                ELSE Message(u, "steal-chance", 0)
    /\ UNCHANGED <<clock, cooldowns, holder, drawn, notSteal>>

\* steal.attempt: one random draw; on success db.stealCharacter moves the
\* character, otherwise db.failSteal sets the cooldown
StealAttempt(u, success) ==
    /\ drawn < MaxDraws
    /\ IF onCooldown(cooldowns[u], clock)
       THEN /\ shown' = Message(u, "steal-cooldown", cooldowns[u])
            /\ UNCHANGED <<cooldowns, holder, drawn>>
       ELSE IF holder = u
       THEN /\ shown' = Message(u, "character-not-owned", 0)
            /\ UNCHANGED <<cooldowns, holder, drawn>>
       ELSE /\ drawn' = drawn + 1
            /\ IF success
               THEN /\ holder' = u
                    /\ shown' = Message(u, "you-succeeded", 0)
                    /\ UNCHANGED cooldowns
               ELSE /\ cooldowns' = [cooldowns EXCEPT
                                        ![u] = clock + CooldownTicks]
                    /\ shown' = Message(u, "you-failed", clock + CooldownTicks)
                    /\ UNCHANGED holder
    /\ UNCHANGED <<clock, notSteal>>

\* time passes
StealTick ==
    /\ clock < MaxClock
    /\ clock' = clock + 1
    /\ UNCHANGED <<cooldowns, holder, drawn, shown, notSteal>>

\* ------------------------------------------------------------------------
\* rechargePulls(instance, user, false) on one inventory: no write is made
\* (src/src/trade.ts:1176-1228)
\* ------------------------------------------------------------------------

Recharge ==
    /\ credited = <<>>
    /\ credited' = <<afterGetInventory(
                         startLocals(FALSE, OwnerRecord(<<OldInventoryId>>)),
                         budget, 1, calledAt).inventory>>
    /\ UNCHANGED <<budget, calledAt, notRecharge>>

\* ------------------------------------------------------------------------
\* getUser, getGuild, getInstance and getInventory called in a row by
\* concurrent handlers on a store that holds nothing yet
\* (src/src/trade.ts:1015-1174, called as in src/src/merge.ts:23-28)
\* ------------------------------------------------------------------------

Handlers == {"h1", "h2", "h3"}

\* the Discord ids the handlers are called with
TheUser == "discord_user"

TheGuild == "discord_guild"

\* db/indices.ts guildsByDiscordId
guildsByDiscordId(id) == <<"guilds_by_discord_id", id, "">>

\* ulid() in the handler h making a record of the given kind: an id no other
\* call makes
ulidOf(h, kind) == kind \o "_" \o h

\* lines 1022-1026
newUser(h) == [_id |-> ulidOf(h, "user"), id |-> TheUser, inventories |-> <<>>]

\* lines 1050-1054
newGuild(h) == [_id |-> ulidOf(h, "guild"), id |-> TheGuild, instances |-> <<>>]

\* lines 1085-1091
newInstance(h, guild) ==
    [_id |-> ulidOf(h, "instance"), guild |-> guild._id, inventories |-> <<>>]

\* lines 1140-1145
createdInventory(h, instance, user) ==
    [_id |-> ulidOf(h, "inventory"), availablePulls |-> MAX_NEW_PULLS,
     instance |-> instance._id, user |-> user._id]

\* a check that passes whatever the store holds
absent_unchecked(held, key) == TRUE

\* .check({ key, versionstamp: null }): the key holds no value
absent(held, key) == key \notin DOMAIN held

\* the store after the sets of a commit
written(held, sets) ==
    [k \in (DOMAIN held) \cup (DOMAIN sets) |->
        IF k \in DOMAIN sets THEN sets[k] ELSE held[k]]

\* lines 1028-1034: the sets of getUser's insert
userSets(user) ==
    setsOf(<< <<primaryKey("users", user._id), user>>,
              <<usersByDiscordId(TheUser), user>> >>)

\* lines 1056-1062: the sets of getGuild's insert
guildSets(guild) ==
    setsOf(<< <<primaryKey("guilds", guild._id), guild>>,
              <<guildsByDiscordId(TheGuild), guild>> >>)

\* lines 1095-1102: the sets of getInstance's commit, which checks nothing
instanceSets(instance, guild) ==
    setsOf(<< <<primaryKey("instances", instance._id), instance>>,
              <<primaryKey("guilds", guild._id), guild>>,
              <<guildsByDiscordId(guild.id), guild>> >>)

\* lines 1150-1161: the sets of getInventory's insert
inventorySets(inv, instance, user) ==
    setsOf(<< <<primaryKey("inventories", inv._id), inv>>,
              <<inventoriesByUser(instance._id, user._id), inv>>,
              <<primaryKey("instances", instance._id), instance>>,
              <<primaryKey("users", user._id), user>>,
              <<usersByDiscordId(user.id), user>> >>)

\* a handler about to call getUser; a local holds <<>> until it is assigned
idleHandler ==
    [pc |-> "getUser", user |-> <<>>, guild |-> <<>>, instance |-> <<>>,
     inventory |-> <<>>]

\* lines 1088-1093: the instance getInstance makes, the guild object of the
\* caller pointed to it
withNewInstance(l, h, guild) ==
    [l EXCEPT !.pc = "insertInstance",
              !.instance = <<newInstance(h, guild)>>,
              !.guild = <<[guild EXCEPT !.instances = <<ulidOf(h, "instance")>>]>>]

\* lines 1071-1083: getInstance(guild) up to its first await
getInstanceStart(l, h, guild) ==
    IF Len(guild.instances) > 0
    THEN [l EXCEPT !.pc = "getInstance", !.guild = <<guild>>]
    ELSE withNewInstance(l, h, guild)

\* lines 1016-1020: the read of getUser is answered
UserRead(h) ==
    /\ calls[h].pc = "getUser"
    /\ calls' = [calls EXCEPT ![h] =
                    IF absent(records, usersByDiscordId(TheUser))
                    THEN [@ EXCEPT !.pc = "insertUser", !.user = <<newUser(h)>>]
                    ELSE [@ EXCEPT !.pc = "getGuild",
                                   !.user = <<records[usersByDiscordId(TheUser)]>>]]
    /\ UNCHANGED <<records, notRecords>>

\* lines 1028-1040: the insert of getUser is answered
UserInsert(h) ==
    /\ calls[h].pc = "insertUser"
    /\ IF absent(records, usersByDiscordId(TheUser))
       THEN /\ records' = written(records, userSets(calls[h].user[1]))
            /\ calls' = [calls EXCEPT ![h].pc = "getGuild"]
       ELSE /\ calls' = [calls EXCEPT ![h].pc = "KvError: failed to insert user"]
            /\ UNCHANGED records
    /\ UNCHANGED notRecords

\* lines 1044-1048: the read of getGuild is answered; a guild that is found
\* is passed to getInstance
GuildRead(h) ==
    /\ calls[h].pc = "getGuild"
    /\ calls' = [calls EXCEPT ![h] =
                    IF absent(records, guildsByDiscordId(TheGuild))
                    THEN [@ EXCEPT !.pc = "insertGuild", !.guild = <<newGuild(h)>>]
                    ELSE getInstanceStart(@, h,
                                          records[guildsByDiscordId(TheGuild)])]
    /\ UNCHANGED <<records, notRecords>>

\* lines 1056-1068: the insert of getGuild is answered; the guild inserted is
\* passed to getInstance
GuildInsert(h) ==
    /\ calls[h].pc = "insertGuild"
    /\ IF absent(records, guildsByDiscordId(TheGuild))
       THEN /\ records' = written(records, guildSets(calls[h].guild[1]))
            /\ calls' = [calls EXCEPT ![h] =
                            getInstanceStart(@, h, calls[h].guild[1])]
       ELSE /\ calls' = [calls EXCEPT ![h].pc = "KvError: failed to insert guild"]
            /\ UNCHANGED records
    /\ UNCHANGED notRecords

\* lines 1074-1082: the read of getInstance is answered; getInventory starts
\* with the instance that is found
InstanceRead(h) ==
    /\ calls[h].pc = "getInstance"
    /\ LET key == primaryKey("instances", calls[h].guild[1].instances[1])
       IN calls' = [calls EXCEPT ![h] =
                       IF absent(records, key)
                       THEN withNewInstance(@, h, calls[h].guild[1])
                       ELSE [@ EXCEPT !.pc = "getInventory",
                                      !.instance = <<records[key]>>]]
    /\ UNCHANGED <<records, notRecords>>

\* lines 1095-1108: the commit of getInstance is answered; it checks nothing
\* and cannot fail
InstanceInsert(h) ==
    /\ calls[h].pc = "insertInstance"
    /\ records' = written(records, instanceSets(calls[h].instance[1],
                                                 calls[h].guild[1]))
    /\ calls' = [calls EXCEPT ![h].pc = "getInventory"]
    /\ UNCHANGED notRecords

\* lines 1129-1148: the read of getInventory is answered
InventoryRead(h) ==
    /\ calls[h].pc = "getInventory"
    /\ LET l == calls[h]
           key == inventoriesByUser(l.instance[1]._id, l.user[1]._id)
           made == createdInventory(h, l.instance[1], l.user[1])
       IN calls' = [calls EXCEPT ![h] =
                       IF absent(records, key)
                       THEN [@ EXCEPT
                               !.pc = "insertInventory",
                               !.inventory = <<made>>,
                               !.instance = <<[l.instance[1] EXCEPT
                                   !.inventories = Append(@, made._id)]>>,
                               !.user = <<[l.user[1] EXCEPT
                                   !.inventories = Append(@, made._id)]>>]
                       ELSE [@ EXCEPT !.pc = "returned",
                                      !.inventory = <<records[key]>>]]
    /\ UNCHANGED <<records, notRecords>>

\* lines 1150-1173: the insert of getInventory is answered
InventoryInsert(h) ==
    /\ calls[h].pc = "insertInventory"
    /\ LET l == calls[h]
           key == inventoriesByUser(l.instance[1]._id, l.user[1]._id)
       IN IF absent(records, key)
          THEN /\ records' = written(records,
                                 inventorySets(l.inventory[1], l.instance[1],
                                               l.user[1]))
               /\ calls' = [calls EXCEPT ![h].pc = "returned"]
          ELSE /\ calls' = [calls EXCEPT
                               ![h].pc = "KvError: failed to insert inventory"]
               /\ UNCHANGED records
    /\ UNCHANGED notRecords

\* ------------------------------------------------------------------------
\* trade.pre from the characters found to the message it patches
\* (src/src/trade.ts:108-358)
\* ------------------------------------------------------------------------

\* how many characters an offer names on each side at most
MaxOffer == 2

\* `${packId}:${id}` of the characters an offer can name
OfferIds == {"anilist:1", "anilist:2"}

\* sequences over S of the lengths lo..hi
SeqsOf(S, lo, hi) == UNION {[1..n -> S] : n \in lo..hi}

\* lines 115-126: the characters keyed by `${packId}:${id}`, one per key, in
\* the order the keys were first set
RECURSIVE unique(_)
unique(ids) ==
    IF ids = <<>> THEN <<>>
    ELSE LET front == unique(SubSeq(ids, 1, Len(ids) - 1))
             last == ids[Len(ids)]
         IN IF includes(front, last) THEN front ELSE Append(front, last)

\* the party of an inventory: member2 and member4 hold the members, the
\* other slots are undefined
partyOf(members) ==
    <<NoId,
      IF "anilist:1" \in members THEN "anilist:1" ELSE NoId,
      NoId,
      IF "anilist:2" \in members THEN "anilist:2" ELSE NoId,
      NoId>>

\* offered without `.filter((id) => giveIds.includes(id))`
offered_everyMember(p, ids) == SelectSeq(p, LAMBDA id : id # NoId)

\* lines 183-191 and 256-264: the members of the party that are on offer
offered(p, ids) ==
    SelectSeq(SelectSeq(p, LAMBDA id : id # NoId),
              LAMBDA id : includes(ids, id))

\* notOwned keeping the characters that are owned
notOwned_owned(ids, collection) == SelectSeq(ids, LAMBDA id : id \in collection)

\* lines 195-197 and 268-270: the offered characters the collection lacks
notOwned(ids, collection) == SelectSeq(ids, LAMBDA id : id \notin collection)

\* lines 193-197 and 266-270: giveFilter / takeFilter
filterOf(p, ids, collection) ==
    IF Len(offered(p, ids)) > 0
    THEN offered(p, ids)
    ELSE notOwned(ids, collection)

\* lines 200-217 and 273-297: one embed per character of the filter, then
\* the message is patched and pre returns
Report(key, ids) ==
    [dialog |-> "none", description |-> key, characters |-> ids,
     confirm |-> <<>>]

\* lines 314-358: discord.Message.dialog(...).patch(token)
Dialog(kind, giveIds, takeIds) ==
    [dialog |-> kind, description |-> kind, characters |-> <<>>,
     confirm |-> <<giveIds, takeIds>>]

\* lines 108-358
pre(o, h) ==
    LET giveIds == unique(o.give)
        takeIds == unique(o.take)
        giveFilter == filterOf(h.giveParty, giveIds, h.giveCollection)
        takeFilter == filterOf(h.takeParty, takeIds, h.takeCollection)
    IN IF Len(giveFilter) > 0
       THEN Report(IF Len(offered(h.giveParty, giveIds)) > 0
                   THEN "trade-you-party-member" ELSE "trade-you-not-owned",
                   giveFilter)
       ELSE IF Len(o.take) > 0
            THEN IF Len(takeFilter) > 0
                 THEN Report(IF Len(offered(h.takeParty, takeIds)) > 0
                             THEN "trade-user-party-member"
                             ELSE "trade-user-not-owned",
                             takeFilter)
                 ELSE Dialog("trade", giveIds, takeIds)
            ELSE Dialog("give", giveIds, <<>>)

Pre ==
    /\ patched = <<>>
    /\ patched' = <<pre(offer, holdings)>>
    /\ UNCHANGED <<offer, holdings, notTrade>>

\* ------------------------------------------------------------------------
\* The specifications
\* ------------------------------------------------------------------------

Modes == {"target", "min", "max"}

\* the targets a call passes: 'target' mode names one (synthesize's option,
\* confirmed's component id), 'min' and 'max' pass none (merge.test.ts:494,536)
Targets(m) == IF m = "target" THEN Ratings ELSE {Undefined}

NoResult == Thrown("none", 0, Undefined)

\* the store before any inventory exists
emptyStore ==
    [k \in Keys |->
        IF k \in {primaryKey("instances", InstanceId), primaryKey("users", UserId),
                  usersByDiscordId(UserId)}
        THEN Entry(1, OwnerRecord(<<>>))
        ELSE NoEntry]

\* the store holding the inventory inv of the user
storeWith(inv) ==
    applySets(emptyStore,
              insertSets(inv, OwnerRecord(<<inv._id>>), OwnerRecord(<<inv._id>>)),
              2)

\* the pulls an inventory of the initial store has left; below MAX_PULLS its
\* recharge clock is running
InitialPulls == {0, 2, 4, 5, 10}

\* no rechargePulls call and no pull commit is running
KvOff ==
    /\ kv = emptyStore
    /\ lastStamp = 1
    /\ now = 0
    /\ rp = [p \in Rechargers |->
                [startLocals(TRUE, OwnerRecord(<<>>)) EXCEPT !.pc = "off"]]
    /\ pull = [pullStart EXCEPT !.pc = "off"]
    /\ commits = {}

\* no getSacrifices call is made
MergeOff ==
    /\ characters = <<>>
    /\ mode = "target"
    /\ target = Undefined
    /\ result = NoResult
    /\ mpc = "off"

\* no getFilteredCharacters call is made
FilterOff ==
    /\ owned = <<>>
    /\ party = [k \in 1..5 |-> NoId]
    /\ likes = <<>>
    /\ filtered = <<>>
    /\ fpc = "off"

\* no shuffle call is made
ShuffleOff ==
    /\ input = <<>>
    /\ array = <<>>
    /\ si = -1
    /\ rolls = <<>>

\* no packs.pool call is made
PoolOff ==
    /\ anilist = [key \in Brackets |-> NoBracket]
    /\ list = <<>>
    /\ range = Nothing
    /\ role = Nothing
    /\ stars = Undefined
    /\ shuffled = <<>>
    /\ pooled = [status |-> "none", pool |-> <<>>]
    /\ ppc = "off"

\* no rng call is made
RngOff ==
    /\ dict = <<>>
    /\ sample = [status |-> "none", value |-> Nothing, chance |-> Nothing]
    /\ rngpc = "off"

\* no pull is made
PullOff ==
    /\ byUser = Nothing
    /\ guarantee = Undefined
    /\ candidates = <<>>
    /\ chosen = Nothing
    /\ inventory = UserInventory(0, {}, {}, 0)
    /\ before = inventory
    /\ steps = <<>>
    /\ answers = <<>>
    /\ outcome = Outcome("none", Nothing, Nothing)
    /\ gpc = "off"

\* nothing is cached and no call of packs.ts is running
CacheOff ==
    /\ cachedGuilds = [g \in Guilds |-> NoCache]
    /\ installed = [g \in Guilds |-> {}]
    /\ allCalls = [c \in AllCallers |-> idleCall]
    /\ changes = [i \in Changers |-> idleChange]

\* isDisabled was not called
QueryOff == disabled = NotAsked

\* no request was made
FetchOff == requests = [c \in Fetchers |-> idleRequest]

\* no rating is computed
RatingOff ==
    /\ ratedRole = Nothing
    /\ popularities = <<>>
    /\ rated = <<>>

\* the batch job does not run
idleJob ==
    [pc |-> "off", rangeIdx |-> 1, mediaPage |-> 1, inPage |-> 0,
     charactersPage |-> 1, buckets |-> emptyBuckets,
     cache |-> [k \in Brackets |-> NoBracket],
     mediaPages |-> <<>>, characterPages |-> <<>>, naps |-> <<>>,
     errors |-> <<>>]

BuildOff ==
    /\ popularityOf = [m \in MediaIds |-> 0]
    /\ adultMedia = {}
    /\ missingEdges = {}
    /\ inclusiveFilter = FALSE
    /\ job = idleJob

\* no chance is computed
ChanceOff ==
    /\ cardRating = 1
    /\ lastPullAgo = NeverPulled
    /\ stealChance = 0

\* nobody steals
StealOff ==
    /\ clock = 0
    /\ cooldowns = [u \in Users |-> 0]
    /\ holder = "another_user_id"
    /\ drawn = 0
    /\ shown = NoMessage

\* no budget is recharged
RechargeOff ==
    /\ budget = InventoryRecord(OldInventoryId, 0, NoTimestamp)
    /\ calledAt = 0
    /\ credited = <<>>

\* no handler makes a first call
RecordsOff ==
    /\ records = <<>>
    /\ calls = <<>>

\* no trade is offered
TradeOff ==
    /\ offer = <<>>
    /\ holdings = <<>>
    /\ patched = <<>>

\* one part of the model runs, every other part is idle
OnlyMerge ==
    /\ KvOff
    /\ FilterOff
    /\ ShuffleOff
    /\ PoolOff
    /\ RngOff
    /\ PullOff
    /\ CacheOff
    /\ QueryOff
    /\ FetchOff
    /\ RatingOff
    /\ BuildOff
    /\ ChanceOff
    /\ StealOff
    /\ RechargeOff
    /\ RecordsOff
    /\ TradeOff

OnlyKv ==
    /\ MergeOff
    /\ FilterOff
    /\ ShuffleOff
    /\ PoolOff
    /\ RngOff
    /\ PullOff
    /\ CacheOff
    /\ QueryOff
    /\ FetchOff
    /\ RatingOff
    /\ BuildOff
    /\ ChanceOff
    /\ StealOff
    /\ RechargeOff
    /\ RecordsOff
    /\ TradeOff

OnlyFilter ==
    /\ MergeOff
    /\ KvOff
    /\ ShuffleOff
    /\ PoolOff
    /\ RngOff
    /\ PullOff
    /\ CacheOff
    /\ QueryOff
    /\ FetchOff
    /\ RatingOff
    /\ BuildOff
    /\ ChanceOff
    /\ StealOff
    /\ RechargeOff
    /\ RecordsOff
    /\ TradeOff

OnlyShuffle ==
    /\ MergeOff
    /\ KvOff
    /\ FilterOff
    /\ PoolOff
    /\ RngOff
    /\ PullOff
    /\ CacheOff
    /\ QueryOff
    /\ FetchOff
    /\ RatingOff
    /\ BuildOff
    /\ ChanceOff
    /\ StealOff
    /\ RechargeOff
    /\ RecordsOff
    /\ TradeOff

OnlyPool ==
    /\ MergeOff
    /\ KvOff
    /\ FilterOff
    /\ ShuffleOff
    /\ RngOff
    /\ PullOff
    /\ CacheOff
    /\ QueryOff
    /\ FetchOff
    /\ RatingOff
    /\ BuildOff
    /\ ChanceOff
    /\ StealOff
    /\ RechargeOff
    /\ RecordsOff
    /\ TradeOff

OnlyRng ==
    /\ MergeOff
    /\ KvOff
    /\ FilterOff
    /\ ShuffleOff
    /\ PoolOff
    /\ PullOff
    /\ CacheOff
    /\ QueryOff
    /\ FetchOff
    /\ RatingOff
    /\ BuildOff
    /\ ChanceOff
    /\ StealOff
    /\ RechargeOff
    /\ RecordsOff
    /\ TradeOff

OnlyPull ==
    /\ MergeOff
    /\ KvOff
    /\ FilterOff
    /\ ShuffleOff
    /\ PoolOff
    /\ RngOff
    /\ CacheOff
    /\ QueryOff
    /\ FetchOff
    /\ RatingOff
    /\ BuildOff
    /\ ChanceOff
    /\ StealOff
    /\ RechargeOff
    /\ RecordsOff
    /\ TradeOff

OnlyCache ==
    /\ MergeOff
    /\ KvOff
    /\ FilterOff
    /\ ShuffleOff
    /\ PoolOff
    /\ RngOff
    /\ PullOff
    /\ QueryOff
    /\ FetchOff
    /\ RatingOff
    /\ BuildOff
    /\ ChanceOff
    /\ StealOff
    /\ RechargeOff
    /\ RecordsOff
    /\ TradeOff

OnlyQuery ==
    /\ MergeOff
    /\ KvOff
    /\ FilterOff
    /\ ShuffleOff
    /\ PoolOff
    /\ RngOff
    /\ PullOff
    /\ CacheOff
    /\ FetchOff
    /\ RatingOff
    /\ BuildOff
    /\ ChanceOff
    /\ StealOff
    /\ RechargeOff
    /\ RecordsOff
    /\ TradeOff

OnlyFetch ==
    /\ MergeOff
    /\ KvOff
    /\ FilterOff
    /\ ShuffleOff
    /\ PoolOff
    /\ RngOff
    /\ PullOff
    /\ CacheOff
    /\ QueryOff
    /\ RatingOff
    /\ BuildOff
    /\ ChanceOff
    /\ StealOff
    /\ RechargeOff
    /\ RecordsOff
    /\ TradeOff

OnlyRating ==
    /\ MergeOff
    /\ KvOff
    /\ FilterOff
    /\ ShuffleOff
    /\ PoolOff
    /\ RngOff
    /\ PullOff
    /\ CacheOff
    /\ QueryOff
    /\ FetchOff
    /\ BuildOff
    /\ ChanceOff
    /\ StealOff
    /\ RechargeOff
    /\ RecordsOff
    /\ TradeOff

OnlyBuild ==
    /\ MergeOff
    /\ KvOff
    /\ FilterOff
    /\ ShuffleOff
    /\ PoolOff
    /\ RngOff
    /\ PullOff
    /\ CacheOff
    /\ QueryOff
    /\ FetchOff
    /\ RatingOff
    /\ ChanceOff
    /\ StealOff
    /\ RechargeOff
    /\ RecordsOff
    /\ TradeOff

OnlyChance ==
    /\ MergeOff
    /\ KvOff
    /\ FilterOff
    /\ ShuffleOff
    /\ PoolOff
    /\ RngOff
    /\ PullOff
    /\ CacheOff
    /\ QueryOff
    /\ FetchOff
    /\ RatingOff
    /\ BuildOff
    /\ StealOff
    /\ RechargeOff
    /\ RecordsOff
    /\ TradeOff

OnlySteal ==
    /\ MergeOff
    /\ KvOff
    /\ FilterOff
    /\ ShuffleOff
    /\ PoolOff
    /\ RngOff
    /\ PullOff
    /\ CacheOff
    /\ QueryOff
    /\ FetchOff
    /\ RatingOff
    /\ BuildOff
    /\ ChanceOff
    /\ RechargeOff
    /\ RecordsOff
    /\ TradeOff

OnlyRecharge ==
    /\ MergeOff
    /\ KvOff
    /\ FilterOff
    /\ ShuffleOff
    /\ PoolOff
    /\ RngOff
    /\ PullOff
    /\ CacheOff
    /\ QueryOff
    /\ FetchOff
    /\ RatingOff
    /\ BuildOff
    /\ ChanceOff
    /\ StealOff
    /\ RecordsOff
    /\ TradeOff

OnlyRecords ==
    /\ MergeOff
    /\ KvOff
    /\ FilterOff
    /\ ShuffleOff
    /\ PoolOff
    /\ RngOff
    /\ PullOff
    /\ CacheOff
    /\ QueryOff
    /\ FetchOff
    /\ RatingOff
    /\ BuildOff
    /\ ChanceOff
    /\ StealOff
    /\ RechargeOff
    /\ TradeOff

OnlyTrade ==
    /\ MergeOff
    /\ KvOff
    /\ FilterOff
    /\ ShuffleOff
    /\ PoolOff
    /\ RngOff
    /\ PullOff
    /\ CacheOff
    /\ QueryOff
    /\ FetchOff
    /\ RatingOff
    /\ BuildOff
    /\ ChanceOff
    /\ StealOff
    /\ RechargeOff
    /\ RecordsOff

MergeInit ==
    /\ \E n \in Enumerated \cup Fixtures, asc \in BOOLEAN :
          characters = Inventory(n, asc)
    /\ mode \in Modes
    /\ target \in Targets(mode)
    /\ result = NoResult
    /\ mpc = "call"
    /\ OnlyMerge

GetSacrifices ==
    /\ mpc = "call"
    /\ result' = getSacrifices(characters, mode, target)
    /\ characters' = receiver(characters)
    /\ mpc' = "done"
    /\ UNCHANGED <<mode, target, notMerge>>

MergeNext == GetSacrifices

SpecMerge == MergeInit /\ [][MergeNext]_vars

KvInit ==
    /\ \E fresh \in BOOLEAN, pulls \in InitialPulls :
          /\ kv = IF fresh THEN emptyStore
                  ELSE storeWith(InventoryRecord(
                          OldInventoryId, pulls,
                          IF pulls < MAX_PULLS THEN 0 ELSE NoTimestamp))
          /\ lastStamp = IF fresh THEN 1 ELSE 2
          /\ \E c \in [Rechargers -> BOOLEAN] :
                rp = [p \in Rechargers |->
                        startLocals(c[p],
                                    OwnerRecord(IF fresh THEN <<>>
                                                ELSE <<OldInventoryId>>))]
    /\ now = 0
    /\ pull = pullStart
    /\ commits = {}
    /\ OnlyKv

KvNext ==
    \/ \E p \in Rechargers : GetInventoryRead(p)
    \/ \E p \in Rechargers : GetInventoryInsert(p)
    \/ \E p \in Rechargers : CommitRecharge(p)
    \/ PullRead
    \/ PullCommit
    \/ Tick

SpecKv == KvInit /\ [][KvNext]_vars

\* the owned characters: any of the ids, in id order or reversed, their media
\* either all one media or each the media numbered like the next character
OwnedLists ==
    {SelectSeq([k \in 1..4 |->
                  Character(IdOrder[IF asc THEN k ELSE 5 - k],
                            IF same THEN "anilist:1"
                            ELSE IdOrder[((IF asc THEN k ELSE 5 - k) % 4) + 1])],
               LAMBDA c : c.id \in S) :
        S \in SUBSET Ids, asc \in BOOLEAN, same \in BOOLEAN}

\* the parties: the members S in id order, in the first or in the last slots
RECURSIVE Listed(_, _)
Listed(S, k) ==
    IF k > 4 THEN <<>>
    ELSE (IF IdOrder[k] \in S THEN <<IdOrder[k]>> ELSE <<>>) \o Listed(S, k + 1)

Parties ==
    {[k \in 1..5 |->
        LET m == Listed(S, 1)
            at == IF front THEN k ELSE k - (5 - Len(m))
        IN IF at \in 1..Len(m) THEN m[at] ELSE NoId] :
        S \in SUBSET Ids, front \in BOOLEAN}

LikeLists == UNION {[1..n -> Likes] : n \in 0..MaxLikes}

FilterInit ==
    /\ owned \in OwnedLists
    /\ party \in Parties
    /\ likes \in LikeLists
    /\ filtered = <<>>
    /\ fpc = "call"
    /\ OnlyFilter

GetFilteredCharacters ==
    /\ fpc = "call"
    /\ filtered' = getFilteredCharacters(owned, party, likes)
    /\ fpc' = "done"
    /\ UNCHANGED <<owned, party, likes, notFilter>>

FilterNext == GetFilteredCharacters

SpecFilter == FilterInit /\ [][FilterNext]_vars

\* the arrays of distinct elements: every order of 1..n
Orders(n) == {a \in [1..n -> 1..n] : \A j, k \in 1..n : a[j] = a[k] => j = k}

ShuffleInit ==
    /\ \E n \in 0..MaxLength : input \in Orders(n)
    /\ array = input
    /\ si = 0
    /\ rolls = <<>>
    /\ OnlyShuffle

\* one iteration of the loop
ShuffleStep ==
    /\ si >= 0
    /\ si < Len(array)
    /\ \E swap \in swapChoices(si, Len(array)) :
          /\ array' = exchange(array, si, swap)
          /\ rolls' = Append(rolls, swap)
    /\ si' = si + 1
    /\ UNCHANGED <<input, notShuffle>>

ShuffleNext == ShuffleStep

SpecShuffle == ShuffleInit /\ [][ShuffleNext]_vars

\* the characters.new of the community pack: one of the media of two
\* catalog characters, one without media, one of a media of its own
NewCharacters ==
    <<Aggregated("1", "anilist:10", 2), Aggregated("2", Nothing, 1),
      Aggregated("3", "pack:30", 1)>>

\* what packs.all returns: nothing, a manifest without characters.new, or
\* that manifest and a community pack with some of NewCharacters
Lists ==
    {<<>>, <<Manifest("vtubers", Nothing)>>}
        \cup {<<Manifest("vtubers", Nothing),
                Manifest("pack", SelectSeq(NewCharacters,
                                           LAMBDA c : c.id \in S))>> :
                  S \in SUBSET {"1", "2", "3"}}

PoolInit ==
    /\ \E where \in [1..Len(Catalog) -> Brackets \cup {Nothing}] :
          anilist = cacheOf(where)
    /\ list \in Lists
    /\ \/ /\ stars = Undefined
          /\ range \in Brackets
          /\ role \in CharacterRoles \cup {Nothing}
       \/ /\ stars \in 1..2
          /\ range = Nothing
          /\ role = Nothing
    /\ shuffled = <<>>
    /\ pooled = [status |-> "none", pool |-> <<>>]
    /\ ppc = "call"
    /\ OnlyPool

\* the whole of packs.pool; rnd are the random choices of utils.shuffle
Pool ==
    /\ ppc = "call"
    /\ LET g == gathered(anilist, list, range, role, stars)
       IN IF g.status = "ok"
          THEN \E rnd \in RandomSeqs(Len(g.pool)) :
                  /\ shuffled' = shuffle(g.pool, rnd)
                  /\ pooled' = [status |-> "ok",
                                pool |-> filterFrom(shuffled', 1, {}, stars)]
          ELSE /\ pooled' = g
               /\ UNCHANGED shuffled
    /\ ppc' = "done"
    /\ UNCHANGED <<anilist, list, range, role, stars, notPool>>

PoolNext == Pool

SpecPool == PoolInit /\ [][PoolNext]_vars

\* the chances the enumerated tables are written with
Chances == {-10, 0, 1, 10, 20, 30, 50, 70, 99, 100, 110}

\* the tables of the sampler: the brackets (65/22/9/3/1) and the roles
\* (10/70/20)
WeightTables ==
    {<<TableEntry(65, "[1000,50000]"), TableEntry(22, "[50000,100000]"),
       TableEntry(9, "[100000,200000]"), TableEntry(3, "[200000,400000]"),
       TableEntry(1, "[400000,null]")>>,
     <<TableEntry(10, "MAIN"), TableEntry(70, "SUPPORTING"),
       TableEntry(20, "BACKGROUND")>>}

\* the values of the enumerated tables, by place in insertion order
ValueNames == <<"v1", "v2", "v3", "v4", "v5">>

\* the tables of up to MaxEntries entries: distinct chances in any insertion
\* order, the value of an entry naming its place in that order
Tables ==
    UNION {{[k \in 1..n |-> TableEntry(c[k], ValueNames[k])] :
              c \in {x \in [1..n -> Chances] :
                        \A j, k \in 1..n : x[j] = x[k] => j = k}} :
           n \in 0..MaxEntries}

RngInit ==
    /\ dict \in Tables \cup WeightTables
    /\ sample = [status |-> "none", value |-> Nothing, chance |-> Nothing]
    /\ rngpc = "call"
    /\ OnlyRng

Rng ==
    /\ rngpc = "call"
    /\ \E first \in firsts(dict) : sample' = rng(dict, first)
    /\ rngpc' = "done"
    /\ UNCHANGED <<dict, notRng>>

RngNext == Rng

SpecRng == RngInit /\ [][RngNext]_vars

\* the pools: up to MaxPool entries of distinct characters, each passing
\* validation or not
Pools ==
    UNION {{[k \in 1..n |-> Candidate(IdOrder[k], v[k])] :
              v \in [1..n -> BOOLEAN]} : n \in 0..MaxPool}

\* the inventories: with or without pulls left, a guarantee of rating 1 or
\* none, any of the first two characters owned
Inventories ==
    {UserInventory(pulls, g, owns, since) :
        pulls \in 0..1, g \in {{}, {1}},
        owns \in SUBSET {IdOrder[1], IdOrder[2]}, since \in {0, 15}}

PullInit ==
    /\ byUser \in {Nothing, UserId}
    /\ guarantee \in {Undefined, 1}
    /\ candidates \in Pools
    /\ chosen = Nothing
    /\ inventory \in Inventories
    /\ before = inventory
    /\ steps = <<>>
    /\ answers = <<>>
    /\ outcome = Outcome("none", Nothing, Nothing)
    /\ gpc = "sample"
    /\ OnlyPull

PullNext ==
    \/ SampleVariables
    \/ BuildPool
    \/ PickAndValidate
    \/ CommitPull

SpecPull == PullInit /\ [][PullNext]_vars

\* the process has just started: nothing is cached; the store holds any of
\* the packs that can be installed
CacheInit ==
    /\ cachedGuilds = [g \in Guilds |-> NoCache]
    /\ installed \in [Guilds -> SUBSET PublicPacks]
    /\ allCalls = [c \in AllCallers |-> idleCall]
    /\ changes = [i \in Changers |-> idleChange]
    /\ OnlyCache

CacheNext ==
    \/ \E c \in AllCallers, g \in Guilds : AllBegin(c, g)
    \/ \E c \in AllCallers : AllGet(c)
    \/ \E c \in AllCallers : AllSet(c)
    \/ \E i \in Changers, op \in {"install", "uninstall"}, g \in Guilds,
          id \in PackIds : ChangeBegin(i, op, g, id)
    \/ \E i \in Changers : ChangeStore(i)
    \/ \E i \in Changers : ChangeDelete(i)
    \/ \E id \in AskedIds, g \in Guilds : IsDisabled(id, g)

SpecCache == CacheInit /\ [][CacheNext]_vars



\* ------------------------------------------------------------------------
\* SpecFetch: callers of utils.fetchWithRetry; every pending fetch and
\* every sleep eventually ends
\* ------------------------------------------------------------------------

FetchInit ==
    /\ FetchOff
    /\ OnlyFetch

FetchNext ==
    \/ \E c \in Fetchers : FetchBegin(c)
    \/ \E c \in Fetchers, status \in Statuses : FetchResolved(c, status)
    \/ \E c \in Fetchers, err \in NetworkErrors : FetchRejected(c, err)
    \/ \E c \in Fetchers : FetchAgain(c)

SpecFetch ==
    /\ FetchInit
    /\ [][FetchNext]_vars
    /\ \A c \in Fetchers : WF_vars(FetchStep(c))

\* ------------------------------------------------------------------------
\* SpecRating: a role and two popularity values, rated
\* ------------------------------------------------------------------------

\* the popularity values of the fixtures and the values next to each
\* threshold
Popularities ==
    {0, 75, 1000, 2500, 49999, 50000, 199999, 200000, 250000, 399999,
     400000, 500000, 999999, 1000000}

RatingInit ==
    /\ ratedRole \in CharacterRoles \cup {Nothing}
    /\ popularities \in {p \in Popularities \X Popularities : p[1] <= p[2]}
    /\ rated = <<>>
    /\ OnlyRating

RatingNext == Rate

SpecRating == RatingInit /\ [][RatingNext]_vars

\* ------------------------------------------------------------------------
\* SpecBuild: one run of the batch job over every catalog
\* ------------------------------------------------------------------------

\* missing, the lowest limit, inside a bracket, a limit two brackets share,
\* inside the next bracket, the limit of the open bracket
PopularityValues == {0, 1000, 30000, 50000, 60000, 400000}

BuildInit ==
    /\ popularityOf \in [MediaIds -> PopularityValues]
    /\ adultMedia \in SUBSET MediaIds
    /\ missingEdges \in SUBSET CharacterIds
    /\ inclusiveFilter \in BOOLEAN
    /\ job = [idleJob EXCEPT !.pc = "queryMedia"]
    /\ OnlyBuild

BuildNext ==
    \/ MediaAnswered
    \/ CharactersAnswered
    \/ TooManyRequests
    \/ OtherError

SpecBuild == BuildInit /\ [][BuildNext]_vars

\* ------------------------------------------------------------------------
\* SpecChance: the chance of a steal for every rating and inactivity
\* ------------------------------------------------------------------------

ChanceInit ==
    /\ cardRating \in Ratings
    /\ lastPullAgo \in (0..MaxHoursAgo) \cup {NeverPulled}
    /\ stealChance = 0
    /\ OnlyChance

ChanceNext == GetChances

SpecChance == ChanceInit /\ [][ChanceNext]_vars

\* ------------------------------------------------------------------------
\* SpecSteal: two users stealing one character from each other
\* ------------------------------------------------------------------------

StealInit ==
    /\ clock = 0
    /\ cooldowns \in [Users -> 0..CooldownTicks]
    /\ holder \in Users
    /\ drawn = 0
    /\ shown = NoMessage
    /\ OnlySteal

StealNext ==
    \/ \E u \in Users : StealPre(u)
    \/ \E u \in Users, success \in BOOLEAN : StealAttempt(u, success)
    \/ StealTick

SpecSteal == StealInit /\ [][StealNext]_vars

\* ------------------------------------------------------------------------
\* SpecRecharge: every budget, recharged after every time
\* ------------------------------------------------------------------------

\* minutes: on, just below and just above the multiples of RECHARGE_MINS
RechargeTimes == {0, 15, 29, 30, 31, 59, 60, 90, 120, 150, 200}

RechargeInit ==
    /\ \E pulls \in 0..MAX_NEW_PULLS,
          ts \in RechargeTimes \cup {NoTimestamp} :
          budget = InventoryRecord(OldInventoryId, pulls, ts)
    /\ calledAt \in RechargeTimes
    /\ budget.rechargeTimestamp <= calledAt
    /\ credited = <<>>
    /\ OnlyRecharge

RechargeNext == Recharge

SpecRecharge == RechargeInit /\ [][RechargeNext]_vars

\* ------------------------------------------------------------------------
\* SpecRecords: handlers racing on a store that holds no user, guild,
\* instance or inventory yet
\* ------------------------------------------------------------------------

RecordsInit ==
    /\ records = <<>>
    /\ calls = [h \in Handlers |-> idleHandler]
    /\ OnlyRecords

RecordsNext ==
    \/ \E h \in Handlers : UserRead(h)
    \/ \E h \in Handlers : UserInsert(h)
    \/ \E h \in Handlers : GuildRead(h)
    \/ \E h \in Handlers : GuildInsert(h)
    \/ \E h \in Handlers : InstanceRead(h)
    \/ \E h \in Handlers : InstanceInsert(h)
    \/ \E h \in Handlers : InventoryRead(h)
    \/ \E h \in Handlers : InventoryInsert(h)

SpecRecords == RecordsInit /\ [][RecordsNext]_vars

\* ------------------------------------------------------------------------
\* SpecTrade: every offer against every collection and party
\* ------------------------------------------------------------------------

\* every offer of 1..MaxOffer characters to give and 0..MaxOffer to take; the
\* parties are made of characters of the collections
TradeInit ==
    /\ \E give \in SeqsOf(OfferIds, 1, MaxOffer),
          take \in SeqsOf(OfferIds, 0, MaxOffer) :
          offer = [give |-> give, take |-> take]
    /\ \E a \in SUBSET OfferIds, b \in SUBSET OfferIds :
       \E ma \in SUBSET a, mb \in SUBSET b :
          holdings = [giveCollection |-> a, giveParty |-> partyOf(ma),
                      takeCollection |-> b, takeParty |-> partyOf(mb)]
    /\ patched = <<>>
    /\ OnlyTrade

TradeNext == Pre

SpecTrade == TradeInit /\ [][TradeNext]_vars

\* ------------------------------------------------------------------------
\* Vocabulary of the properties of getSacrifices, counted from the input
\* list alone (nothing here uses the operators that model the code)
\* ------------------------------------------------------------------------

\* the characters of rating r, in the order of the input list
OfRating(r) == SelectSeq(characters, LAMBDA c : c.rating = r)

\* the raw material of tier r: the tier-4 material is the characters rated 4
\* followed by those rated 5, tier 5 has none
Material(r) ==
    CASE r \in 1..3 -> OfRating(r)
      [] r = 4 -> OfRating(4) \o OfRating(5)
      [] OTHER -> <<>>

\* how many possibilities tier t holds: one per character of its material and
\* one per full five of the possibilities of the tier below
RECURSIVE Units(_)
Units(t) ==
    IF t = 1 THEN Len(Material(1))
    ELSE Len(Material(t)) + (Units(t - 1) \div 5)

\* tier t has a possibility of 5 or more characters
Feasible(t) == t \in 2..5 /\ Units(t - 1) >= 5

FeasibleTiers == {t \in 2..5 : Feasible(t)}

\* how many folded possibilities (fives of the tier below) tier r holds
Folds(r) == IF r = 1 THEN 0 ELSE Units(r - 1) \div 5

\* how many possibilities of tier r the first group of tier t is made of
RECURSIVE Need(_, _)
Need(t, r) ==
    IF r = t - 1 THEN 5 ELSE 5 * Min(Need(t, r + 1), Folds(r + 1))

\* how many characters of the material of tier r the first group of tier t holds
Taken(t, r) == Need(t, r) - Min(Need(t, r), Folds(r))

\* the first group of tier t: of every tier below t, lowest first, the first
\* Taken(t, r) characters of its material
RECURSIVE FirstGroupUpTo(_, _)
FirstGroupUpTo(t, r) ==
    IF r = 0 THEN <<>>
    ELSE FirstGroupUpTo(t, r - 1) \o SubSeq(Material(r), 1, Taken(t, r))

FirstGroup(t) == FirstGroupUpTo(t, t - 1)

\* how many characters of rating r a list holds
CountOf(g, r) == Cardinality({k \in 1..Len(g) : g[k].rating = r})

\* the weight of a list: 5^(r-1) per character of rating r, 125 for rating 5
Weight(g) ==
    CountOf(g, 1) + 5 * CountOf(g, 2) + 25 * CountOf(g, 3)
    + 125 * (CountOf(g, 4) + CountOf(g, 5))

\* the input holds n characters, all of rating r
AllOfRating(r, n) == Len(characters) = n /\ CountOf(characters, r) = n

Done == mpc = "done"

Lowest(S) == CHOOSE t \in S : \A u \in S : t <= u

Highest(S) == CHOOSE t \in S : \A u \in S : t >= u

\* ------------------------------------------------------------------------
\* C3..C10: getSacrifices
\* ------------------------------------------------------------------------

\* C3: in target mode with target t, whenever tier t has a possibility of 5 or
\* more characters, getSacrifices returns the first such possibility and t as
\* the resolved target; 25 characters rated 1 with target 2 give exactly 5
\* characters, all rated 1.
C3_TargetReturnsFirst ==
    (Done /\ mode = "target")
        => /\ Feasible(target)
                => /\ result.status = "ok"
                   /\ result.target = target
                   /\ result.group = FirstGroup(target)
           /\ (AllOfRating(1, 25) /\ target = 2)
                => /\ result.status = "ok"
                   /\ Len(result.group) = 5
                   /\ CountOf(result.group, 1) = 5

C3_Witness ==
    /\ Done /\ mode = "target" /\ target = 2 /\ AllOfRating(1, 25)
    /\ result.status = "ok" /\ Len(result.group) = 5

\* C4: every returned group has total weight exactly 5^(t-1) for its resolved
\* target t (rating r weighs 5^(r-1), rating 5 weighs 125): only rating-1
\* characters make 25 of them for target 3 and 625 for target 5, and 20 ones
\* plus one two are a target-3 group.
C4_GroupWeight ==
    (Done /\ result.status = "ok")
        => /\ Weight(result.group) = Pow(5, result.target - 1)
           /\ (CountOf(result.group, 1) = Len(result.group) /\ result.target = 3)
                => Len(result.group) = 25
           /\ (CountOf(result.group, 1) = Len(result.group) /\ result.target = 5)
                => Len(result.group) = 625
           /\ (mode = "target" /\ target = 3 /\ Len(characters) = 21
               /\ CountOf(characters, 1) = 20 /\ CountOf(characters, 2) = 1)
                => /\ CountOf(result.group, 1) = 20
                   /\ CountOf(result.group, 2) = 1
                   /\ Len(result.group) = 21

C4_Witness ==
    /\ Done /\ result.status = "ok" /\ result.target = 5
    /\ Len(result.group) = 625 /\ CountOf(result.group, 1) = 625

\* C5: rating-5 characters are tier-4 material: when the input is five
\* characters rated 4 or 5, target 5 selects all five with resolved target 5;
\* no group for a resolved target below 5 holds a rating-5 character.
C5_FivesAreTierFour ==
    Done
        => /\ (mode = "target" /\ target = 5 /\ Len(characters) = 5
               /\ CountOf(characters, 4) + CountOf(characters, 5) = 5)
                => /\ result.status = "ok"
                   /\ result.target = 5
                   /\ result.group = OfRating(4) \o OfRating(5)
           /\ (result.status = "ok" /\ result.target < 5)
                => CountOf(result.group, 5) = 0

C5_Witness ==
    /\ Done /\ mode = "target" /\ target = 5 /\ Len(characters) = 5
    /\ CountOf(characters, 4) = 4 /\ CountOf(characters, 5) = 1
    /\ result.status = "ok" /\ CountOf(result.group, 5) = 1

\* C6: in min mode (no target passed) the resolved target is the lowest tier of
\* 2..5 that has a possibility of 5 or more characters and the group is the
\* first such possibility of that tier; 25 characters rated 1 resolve to
\* target 2 with a group of 5 characters rated 1.
C6_MinLowestTier ==
    (Done /\ mode = "min" /\ target = Undefined)
        => /\ FeasibleTiers # {}
                => /\ result.status = "ok"
                   /\ result.target = Lowest(FeasibleTiers)
                   /\ result.group = FirstGroup(Lowest(FeasibleTiers))
           /\ AllOfRating(1, 25)
                => /\ result.status = "ok"
                   /\ result.target = 2
                   /\ Len(result.group) = 5
                   /\ CountOf(result.group, 1) = 5

C6_Witness ==
    /\ Done /\ mode = "min" /\ Cardinality(FeasibleTiers) >= 2
    /\ result.status = "ok" /\ result.target = Lowest(FeasibleTiers)

\* C7: in max mode (no target passed) the resolved target is the highest tier
\* of 2..5 that has a possibility of 5 or more characters and the group is the
\* first such possibility of that tier; 25 characters rated 1 resolve to
\* target 3 and all 25 are the group.
C7_MaxHighestTier ==
    (Done /\ mode = "max" /\ target = Undefined)
        => /\ FeasibleTiers # {}
                => /\ result.status = "ok"
                   /\ result.target = Highest(FeasibleTiers)
                   /\ result.group = FirstGroup(Highest(FeasibleTiers))
           /\ AllOfRating(1, 25)
                => /\ result.status = "ok"
                   /\ result.target = 3
                   /\ Len(result.group) = 25
                   /\ CountOf(result.group, 1) = 25

C7_Witness ==
    /\ Done /\ mode = "max" /\ Cardinality(FeasibleTiers) >= 2
    /\ result.status = "ok" /\ result.target = Highest(FeasibleTiers)

\* C8: in target mode with a target in 2..5 (the tiers that have a tier below
\* them), when the target tier has no possibility of 5 or more characters,
\* getSacrifices returns no group and throws the insufficient-sacrifices error
\* carrying the number of possibilities of tier target-1: 4 characters rated 1
\* with target 2 report 4, an empty inventory with target 5 reports 0.
C8_InsufficientCount ==
    (Done /\ mode = "target" /\ target \in 2..5 /\ ~Feasible(target))
        => /\ result.status = "merge-insufficient"
           /\ result.group = <<>>
           /\ result.count = Units(target - 1)
           /\ (AllOfRating(1, 4) /\ target = 2) => result.count = 4
           /\ (characters = <<>> /\ target = 5) => result.count = 0

C8_Witness ==
    /\ Done /\ mode = "target" /\ target = 2 /\ AllOfRating(1, 4)
    /\ result.status = "merge-insufficient" /\ result.count = 4

\* C9 as stated: 25 characters rated 1 with target 3 in target mode raise the
\* insufficient-sacrifices error.
C9_Original ==
    (Done /\ mode = "target" /\ target = 3 /\ AllOfRating(1, 25))
        => result.status = "merge-insufficient"

\* C9 (amended): 25 characters rated 1 with target 3 in target mode are exactly
\* enough: all 25 are returned as the group with resolved target 3; 24
\* characters rated 1 raise the insufficient-sacrifices error, reporting 4.
C9_TwentyFiveOnesSuffice ==
    (Done /\ mode = "target" /\ target = 3)
        => /\ AllOfRating(1, 25)
                => /\ result.status = "ok"
                   /\ result.target = 3
                   /\ result.group = toSorted(characters)
                   /\ Len(result.group) = 25
           /\ AllOfRating(1, 24)
                => /\ result.status = "merge-insufficient"
                   /\ result.count = 4

C9_Witness ==
    /\ Done /\ mode = "target" /\ target = 3 /\ AllOfRating(1, 25)
    /\ result.status = "ok" /\ Len(result.group) = 25

\* C10: in min or max mode (no target passed), when no tier of 2..5 has a
\* possibility of 5 or more characters, getSacrifices returns no group and
\* throws the merge-not-possible error.
C10_MergeNotPossible ==
    (Done /\ mode \in {"min", "max"} /\ target = Undefined /\ FeasibleTiers = {})
        => /\ result.status = "merge-not-possible"
           /\ result.group = <<>>

C10_Witness ==
    /\ Done /\ mode = "max" /\ Len(characters) = 8 /\ FeasibleTiers = {}
    /\ result.status = "merge-not-possible"

\* ------------------------------------------------------------------------
\* C1, C2: the optimistic-concurrency cycle of the inventory
\* ------------------------------------------------------------------------

\* C1: two concurrent inventory mutations of the same user (pull commit,
\* rechargePulls) that read the same inventory version never both commit: of
\* the conditional writes made from one version exactly one succeeds.
C1_OneCommitPerVersion ==
    \A a, b \in commits : a.by # b.by => a.read # b.read

Terminated(l) ==
    l.pc \in {"returned", "KvError: failed to insert inventory",
              "KvError: failed to update inventory"}

\* C2: rechargePulls makes at most 5 read-compute-conditional-write attempts,
\* each from a read of its own, it never blocks before it has returned or
\* thrown, and it throws KvError('failed to update inventory') exactly when 5
\* conditional writes were rejected.
C2_BoundedRetries ==
    \A p \in Rechargers :
        LET l == rp[p]
        IN /\ l.attempts <= 5
           /\ l.reads <= 5
           /\ l.rejected = l.retires
           /\ l.pc = "commit" => (l.readIn = l.retires /\ l.reads = l.attempts + 1)
           /\ l.attempts <= l.reads
           /\ (l.pc = "KvError: failed to update inventory") <=> (l.rejected = 5)
           /\ ~Terminated(l) =>
                ENABLED (GetInventoryRead(p) \/ GetInventoryInsert(p)
                            \/ CommitRecharge(p))

C2_Witness ==
    \E p \in Rechargers :
        /\ rp[p].pc = "KvError: failed to update inventory"
        /\ rp[p].rejected = 5
        /\ rp[p].reads = 5

\* C11: for every list of characters rated 1..5, every mode and every
\* requested target in 1..5, getSacrifices returns a group or fails with one of
\* the two domain errors (merge-not-possible, merge-insufficient), never with
\* an error of another kind.
C11_OnlyDomainErrors ==
    Done => result.status \in {"ok", "merge-not-possible", "merge-insufficient"}

\* ------------------------------------------------------------------------
\* Properties of getFilteredCharacters
\* ------------------------------------------------------------------------

\* c fills one of the five party slots
PartyMember(c) == \E k \in 1..5 : party[k] = c.id

\* c is named by a like of the likes list
LikedCharacter(c) == \E k \in 1..Len(likes) : likes[k].characterId = c.id

\* the media of c is named by a like of the likes list
LikedMedia(c) == \E k \in 1..Len(likes) : likes[k].mediaId = c.mediaId

Offered(c) == \E k \in 1..Len(filtered) : filtered[k] = c

\* C12: getFilteredCharacters returns exactly the owned characters that are
\* neither one of the five party members nor in the likes list: no party
\* member and no liked character is offered, and no other owned character is
\* withheld.
C12_FilterExact ==
    fpc = "done" =>
        \A k \in 1..Len(owned) :
            LET c == owned[k]
            IN /\ (PartyMember(c) \/ LikedCharacter(c)) => ~Offered(c)
               /\ ~(PartyMember(c) \/ LikedCharacter(c) \/ LikedMedia(c))
                    => Offered(c)

\* ------------------------------------------------------------------------
\* Properties of utils.shuffle
\* ------------------------------------------------------------------------

RECURSIVE Factorial(_)
Factorial(n) == IF n <= 0 THEN 1 ELSE n * Factorial(n - 1)

Shuffled == si = Len(array)

\* C17: utils.shuffle is a uniform Fisher-Yates shuffle: the result is a
\* permutation of the input, there are n! sequences of random choices, the
\* order reached is produced by exactly one of them, and each input element
\* comes first under exactly (n-1)! of them.
C17_UniformShuffle ==
    Shuffled =>
        LET n == Len(input)
            seqs == RandomSeqs(n)
        IN /\ Len(array) = n
           /\ Elements(array) = Elements(input)
           /\ array = shuffle(input, rolls)
           /\ Cardinality(seqs) = Factorial(n)
           /\ \A rnd \in seqs : shuffle(input, rnd) = array => rnd = rolls
           /\ \A x \in Elements(input) :
                 Cardinality({rnd \in seqs : shuffle(input, rnd)[1] = x})
                     = Factorial(n - 1)

C17_Witness ==
    /\ Shuffled
    /\ Len(input) >= 4
    /\ array[1] = input[4]
    /\ array # input

\* what rng relies on: shuffle leaves first the item that stood where the last
\* iteration with swap = 0 was, and that can be any place of the array
FirstIsLastZero ==
    (Shuffled /\ Len(input) > 0) =>
        LET last == CHOOSE k \in 1..Len(rolls) :
                        /\ rolls[k] = 0
                        /\ \A j \in (k + 1)..Len(rolls) : rolls[j] # 0
        IN array[1] = input[last]

\* ------------------------------------------------------------------------
\* Properties of packs.pool
\* ------------------------------------------------------------------------

Pooled == ppc = "done"

\* the entries pool can draw from when stars is given: the ALL bucket of
\* every bracket and the characters with a media of the installed packs
Candidates ==
    UNION {Elements(anilist[key]["ALL"]) :
              key \in {x \in Brackets : anilist[x] # NoBracket}}
        \cup {PoolEntry(c.id, c.media, c.rating) :
                 c \in {x \in UNION {Elements(mf.new) :
                                       mf \in {y \in Elements(list) :
                                                  y.new # Nothing}} :
                           x.media # Nothing}}

\* C13: packs.pool never returns two entries with the same mediaId, whatever
\* the cache holds, whatever packs are installed and however the shuffle
\* falls.
C13_UniqueMedia ==
    Pooled =>
        \A j, k \in 1..Len(pooled.pool) :
            pooled.pool[j].mediaId = pooled.pool[k].mediaId => j = k

C13_Witness ==
    /\ Pooled
    /\ stars = Undefined
    /\ \E j, k \in 1..Len(shuffled) :
          j # k /\ shuffled[j].mediaId = shuffled[k].mediaId
    /\ Len(pooled.pool) >= 2

\* C14: when an exact star value is requested, packs.pool draws from the ALL
\* bucket of every bracket plus the installed packs, every returned entry has
\* the requested rating, and an entry of another rating never blocks a
\* same-media entry of the requested rating from being kept.
C14_ExactStars ==
    (Pooled /\ stars # Undefined) =>
        /\ pooled.status = "ok"
        /\ Elements(shuffled) = Candidates
        /\ \A k \in 1..Len(pooled.pool) :
              /\ pooled.pool[k].rating = stars
              /\ pooled.pool[k] \in Candidates
        /\ \A c \in Candidates :
              c.rating = stars =>
                \E k \in 1..Len(pooled.pool) :
                    pooled.pool[k].mediaId = c.mediaId

\* an entry of another rating was shuffled ahead of an entry of its media that
\* has the requested rating, and the latter was returned
C14_Witness ==
    /\ Pooled
    /\ stars = 2
    /\ \E j, k \in 1..Len(shuffled) :
          /\ j < k
          /\ shuffled[j].mediaId = shuffled[k].mediaId
          /\ shuffled[j].rating # stars
          /\ shuffled[k].rating = stars
          /\ \E n \in 1..Len(pooled.pool) : pooled.pool[n] = shuffled[k]
    /\ \E x, y \in Brackets : x # y /\ anilist[x] # NoBracket /\ anilist[y] # NoBracket

\* C15: packs.pool returns a (possibly empty) list and raises no error for
\* every bracket of the weight table and every role, including a bracket for
\* which the cache holds no characters.
C15_PoolNeverRaises ==
    Pooled => pooled.status = "ok"

\* ------------------------------------------------------------------------
\* Properties of utils.rng
\* ------------------------------------------------------------------------

\* the sum of the chances the table was written with
RECURSIVE Total(_)
Total(d) == IF d = <<>> THEN 0 ELSE Head(d).chance + Total(Tail(d))

\* C16: utils.rng raises an error and samples nothing whenever the chances of
\* the table do not sum to exactly 100, and for every table summing to 100 it
\* returns a {value, chance} pair that is an entry of the table with
\* chance > 0.
C16_RngChecksSum ==
    rngpc = "done" =>
        IF Total(dict) # 100
        THEN /\ sample.status \in {"Error", "TypeError"}
             /\ sample.value = Nothing
             /\ sample.chance = Nothing
        ELSE /\ sample.status = "ok"
             /\ \E k \in 1..Len(dict) :
                   /\ dict[k].value = sample.value
                   /\ dict[k].chance = sample.chance
             /\ sample.chance > 0

\* a table with a zero chance and its keys not in insertion order was sampled
C16_Witness ==
    /\ rngpc = "done"
    /\ Len(dict) = 3
    /\ dict[1].chance = 70
    /\ dict[2].chance = 0
    /\ dict[3].chance = 30
    /\ sample.status = "ok"
    /\ sample.value = "v3"

\* ------------------------------------------------------------------------
\* Properties of gacha.rngPull
\* ------------------------------------------------------------------------

PullDone == gpc = "done"

\* C18: within one pull the steps run in the order sample, build pool,
\* validate, commit: a commit is attempted only by a pull that was given a
\* userId and only after the pool was non-empty and the chosen character
\* passed validation; a pull that ends in PoolError or runs without userId
\* leaves the inventory unchanged.
C18_PullOrder ==
    /\ \A k \in 1..Len(steps) :
          /\ steps[k].step = "sample" <=> k = 1
          /\ steps[k].step = "pool" <=> k = 2
          /\ steps[k].step = "commit" =>
                /\ byUser # Nothing
                /\ steps[2].passed
                /\ steps[k - 1] = Step("validate", steps[k].id, TRUE)
    /\ (PullDone /\ outcome.status = "PoolError") => inventory = before
    /\ byUser = Nothing => inventory = before

\* a pull with a userId committed its second pick after the first failed
\* validation
C18_Witness ==
    /\ PullDone
    /\ byUser # Nothing
    /\ outcome.status = "ok"
    /\ Len(steps) = 5
    /\ ~steps[3].passed
    /\ steps[5].step = "commit"
    /\ inventory # before

\* the last answer of the store, Nothing when no commit was made
LastAnswer == IF answers = <<>> THEN Nothing ELSE answers[Len(answers)]

\* C19 as stated: an exhausted budget surfaces as NoPullsError with the
\* recharge timestamp and every other rejection of the store, a
\* duplicate-character rejection included, surfaces as a generic fatal error,
\* never as PoolError or NoPullsError.
C19_Original ==
    PullDone =>
        /\ LastAnswer = "NO_PULLS_AVAILABLE" =>
              outcome = Outcome("NoPullsError", LastAnswer,
                                rechargeTimestamp(before.rechargeTimestamp))
        /\ \A k \in 1..Len(answers) :
              answers[k] \notin {"ok", "NO_PULLS_AVAILABLE"} =>
                outcome.status = "Error"

\* C19: an exhausted budget surfaces as NoPullsError with the recharge
\* timestamp; a duplicate-character rejection is not fatal, the pull goes on
\* with another pool entry and ends in PoolError when none is left; every
\* other rejection surfaces as a generic fatal error, never as PoolError or
\* NoPullsError.
C19_RejectionsSurface ==
    PullDone =>
        /\ outcome.status = "NoPullsError" <=> LastAnswer = "NO_PULLS_AVAILABLE"
        /\ LastAnswer = "NO_PULLS_AVAILABLE" =>
              outcome.rechargeTimestamp
                  = rechargeTimestamp(before.rechargeTimestamp)
        /\ outcome.status = "Error" <=>
              LastAnswer \notin {Nothing, "ok", "NO_PULLS_AVAILABLE",
                                 "CHARACTER_EXISTS"}
        /\ LastAnswer = "CHARACTER_EXISTS" => outcome.status = "PoolError"
        /\ \A k \in 1..(Len(answers) - 1) : answers[k] = "CHARACTER_EXISTS"

\* the only entry of the pool was owned already: the pull ended in PoolError
C19_Witness ==
    /\ PullDone
    /\ answers = <<"CHARACTER_EXISTS">>
    /\ outcome.status = "PoolError"

\* ------------------------------------------------------------------------
\* Properties of the guild cache
\* ------------------------------------------------------------------------

\* an install or uninstall for g has changed the store and has not yet
\* deleted the entry
Succeeding(g) ==
    \E i \in Changers : changes[i].pc = "delete" /\ changes[i].guildId = g

\* the entry of g, when there is one and no change is about to delete it,
\* lists the packs the store holds: after a successful install or uninstall
\* packs.all answers from a re-read of the store
ReadAfterChange ==
    \A g \in Guilds :
        (cachedGuilds[g] # NoCache /\ ~Succeeding(g)) =>
            cachedGuilds[g].packs = installed[g]

\* the entry of g is removed only by the step of a succeeding install or
\* uninstall for g, and is never replaced by another entry
RemovedOnlyBySuccess ==
    \A g \in Guilds :
        /\ (cachedGuilds[g] # NoCache /\ cachedGuilds'[g] = NoCache) =>
              Succeeding(g)
        /\ (cachedGuilds[g] # NoCache /\ cachedGuilds'[g] # NoCache) =>
              cachedGuilds'[g] = cachedGuilds[g]
        /\ (Succeeding(g) /\ ~Succeeding(g)') => cachedGuilds'[g] = NoCache

\* C20: the cached pack list of guild g is removed when, and only when, an
\* install or uninstall for g succeeds: the next packs.all for g then re-reads
\* the store, a failed install or uninstall leaves the entry untouched, and
\* nothing else removes or refreshes it.
C20_CacheInvalidation ==
    /\ []ReadAfterChange
    /\ [][RemovedOnlyBySuccess]_vars

\* ------------------------------------------------------------------------
\* Properties of packs.isDisabled
\* ------------------------------------------------------------------------

\* C21: packs.isDisabled(id, guildId) returns true if and only if some pack
\* currently installed in the guild declares id in its conflicts or id is in
\* the built-in conflict list, in every state, also before the pack list of
\* the guild was first loaded and right after an install or uninstall.
C21_DisabledIffConflict ==
    disabled # NotAsked =>
        (disabled.returned <=>
            \/ disabled.id \in vtubersConflicts
            \/ \E pack \in installed[disabled.guildId] :
                  disabled.id \in conflicts(pack))

\* ------------------------------------------------------------------------
\* Properties of utils.fetchWithRetry
\* ------------------------------------------------------------------------

\* a rate-limited answer or a network failure
TransientFailure(attempt) ==
    attempt \in NetworkErrors \cup {"429 Too Many Requests"}

Settled(c) == requests[c].pc \in {"resolved", "rejected"}

RetryShape(c) ==
    LET r == requests[c]
        made == Len(r.attempts)
    IN /\ made <= 3
       \* every attempt but the last one failed, and a sleep of half a
       \* second lies between two attempts
       /\ \A i \in 1..(made - 1) : TransientFailure(r.attempts[i])
       /\ r.pc \in {"fetching", "sleeping"} =>
              \A i \in 1..made : TransientFailure(r.attempts[i])
       /\ r.pc # "sleeping" => Len(r.sleeps) = IF made = 0 THEN r.n ELSE
                                   IF Settled(c) THEN made - 1 ELSE made
       /\ \A i \in 1..Len(r.sleeps) : r.sleeps[i] = HalfSecondMs
       \* a failure of attempt 1 or 2 does not end the call
       /\ Settled(c) /\ made < 3 => ~TransientFailure(r.attempts[made])
       /\ r.pc = "resolved" =>
              /\ ~TransientFailure(r.attempts[made])
              /\ r.settled = r.attempts[made]
       /\ r.pc = "rejected" =>
              /\ made = 3
              /\ r.settled = r.attempts[3]

\* C22: utils.fetchWithRetry makes at most 3 attempts; a transient failure
\* (rate-limit rejection or network failure) of attempt 1 or 2 is always
\* followed, after a fixed 0.5 s sleep, by another attempt; the first success
\* is returned without further attempts; a failure of attempt 3 propagates
\* that error; the call always terminates.
C22_BoundedRetry ==
    /\ [](\A c \in Fetchers : RetryShape(c))
    /\ \A c \in Fetchers : (requests[c].pc # "idle") ~> Settled(c)

\* the part of C22 the code keeps: every call ends; it ends rejected only
\* with the error of a third failed fetch, and otherwise with the first
\* response received
FetchTerminates ==
    \A c \in Fetchers : (requests[c].pc # "idle") ~> Settled(c)

FetchRejectionsRetried ==
    \A c \in Fetchers :
        LET r == requests[c]
            made == Len(r.attempts)
        IN /\ made <= 3
           /\ \A i \in 1..(made - 1) : r.attempts[i] \in NetworkErrors
           /\ r.pc = "rejected" =>
                  made = 3 /\ r.settled = r.attempts[3]
                           /\ r.settled \in NetworkErrors
           /\ r.pc = "resolved" =>
                  r.settled = r.attempts[made] /\ r.settled \in Statuses

\* ------------------------------------------------------------------------
\* Properties of Rating
\* ------------------------------------------------------------------------

\* C23: for every fixed role (Main, Supporting, Background or none) the
\* rating is a deterministic value in 1..5 that is non-decreasing in
\* popularity: the lower popularity never gets more stars.
C23_RatingMonotone ==
    rated # <<>> =>
        /\ rated[1] \in 1..5
        /\ rated[2] \in 1..5
        /\ rated[1] <= rated[2]
        /\ popularities[1] = popularities[2] => rated[1] = rated[2]

\* a Main character rated higher at the higher popularity
C23_Witness ==
    /\ rated # <<>>
    /\ ratedRole = "MAIN"
    /\ popularities[1] < popularities[2]
    /\ rated[1] < rated[2]
    /\ rated[2] = 5

\* C24: for every popularity, a Main-role rating equals the role-less rating
\* plus one tier (capped at 5), a Supporting-role rating equals the role-less
\* rating, and a Background-role rating never exceeds 2.
C24_RoleShift ==
    rated # <<>> =>
        \A k \in 1..2 :
            LET roleless == starsOf(Nothing, popularities[k])
            IN /\ ratedRole = "MAIN" =>
                      rated[k] = (IF roleless >= 4 THEN 5 ELSE roleless + 1)
               /\ ratedRole = "SUPPORTING" => rated[k] = roleless
               /\ ratedRole = "BACKGROUND" => rated[k] <= 2

\* ------------------------------------------------------------------------
\* Properties of the cache builder
\* ------------------------------------------------------------------------

\* the entries of a record of buckets
EntriesOf(buckets) ==
    UNION {Elements(buckets[b]) : b \in DOMAIN buckets}

\* the entry e is of a character the bracket may hold
Belongs(e, bracket) ==
    \E c \in CharacterIds :
        /\ e.id = anilistId(c)
        /\ edgesOf(c) # <<>>
        /\ LET first == edgesOf(c)[1]
           IN /\ e.mediaId = anilistId(first.node.id)
              /\ ~first.node.isAdult
              /\ first.node.popularity # 0
              /\ first.node.popularity >= bracket.lo
              /\ bracket.isNaN \/ first.node.popularity <= bracket.hi

\* the character has no media, an adult first media or no popularity
Excluded(c) ==
    \/ edgesOf(c) = <<>>
    \/ edgesOf(c)[1].node.isAdult
    \/ edgesOf(c)[1].node.popularity = 0

\* the character was among the nodes of a page the job went through
Visited(c) ==
    \E v \in Elements(job.characterPages) :
        c \in Elements(pageOf(cast[v[2]], v[3], CharactersPerPage))

\* C25: every entry the cache builder writes into a bracket's buckets
\* belongs to a character whose first media edge is not adult and has a
\* popularity inside that bracket; characters with no media, an adult first
\* media or a missing or zero popularity appear in no bucket of any bracket.
C25_OnlyEligibleCached ==
    /\ job.pc # "off" =>
           \A e \in EntriesOf(job.buckets) :
               Belongs(e, builderRanges[job.rangeIdx])
    /\ \A k \in 1..Len(rangeValues) :
           job.cache[ranges[k]] # NoBracket =>
               \A e \in EntriesOf(job.cache[ranges[k]]) :
                   Belongs(e, rangeValues[k])
    /\ \A c \in CharacterIds :
           Excluded(c) =>
               /\ \A e \in EntriesOf(job.buckets) : e.id # anilistId(c)
               /\ \A k \in Brackets :
                      job.cache[k] # NoBracket =>
                          \A e \in EntriesOf(job.cache[k]) :
                              e.id # anilistId(c)

\* the build ended with a bracket in the cache, and went through a character
\* whose first media is adult and through one above the bracket it was
\* listed in
C25_Witness ==
    /\ job.pc = "written"
    /\ \E k \in Brackets : job.cache[k] # NoBracket
    /\ \E c \in CharacterIds :
           Visited(c) /\ edgesOf(c) # <<>> /\ edgesOf(c)[1].node.isAdult

\* the first media of the character is one a bracket is meant for
Eligible(c) ==
    /\ ~Excluded(c)
    /\ edgesOf(c)[1].node.popularity >= rangeValues[1].lo

BracketsOf(c) ==
    {k \in Brackets :
        /\ job.cache[k] # NoBracket
        /\ \E e \in Elements(job.cache[k]["ALL"]) : e.id = anilistId(c)}

\* C26: the brackets partition the catalog: with the shipped ranges every
\* eligible character is cached under exactly one bracket, for every
\* popularity value including the boundary values.
C26_BracketsPartition ==
    job.pc = "written" =>
        \A c \in CharacterIds :
            Eligible(c) => Cardinality(BracketsOf(c)) = 1

NoRepeat(seq) ==
    \A i, k \in 1..Len(seq) : i # k => seq[i] # seq[k]

PagesCount(length, perPage) ==
    IF length = 0 THEN 1 ELSE (length + perPage - 1) \div perPage

\* C27: while the bracket cache is rebuilt, a 'Too Many Requests' rejection
\* makes the job sleep 60 s and issue the request of the same page again: no
\* media page and no character page is skipped and none contributes twice,
\* however many rejections occur; any other error aborts the build.
C27_PagesExactlyOnce ==
    /\ NoRepeat(job.mediaPages)
    /\ NoRepeat(job.characterPages)
    /\ job.pc = "written" =>
           /\ Elements(job.mediaPages) =
                  {<<r, p>> \in (1..Len(builderRanges)) \X (1..Cardinality(MediaIds)) :
                      p <= PagesCount(Len(served(builderRanges[r])),
                                      MediaPerPage)}
           /\ Elements(job.characterPages) =
                  {<<r, m, p>> \in (1..Len(builderRanges)) \X MediaIds
                                       \X (1..Cardinality(CharacterIds)) :
                      /\ m \in Elements(served(builderRanges[r]))
                      /\ p <= PagesCount(Len(cast[m]), CharactersPerPage)}
    /\ \A i \in 1..Len(job.naps) : job.naps[i] = 60
    /\ Len(job.naps) =
           Cardinality({i \in 1..Len(job.errors) :
                           job.errors[i] = "Too Many Requests"})
    /\ job.pc = "aborted" <=>
           \E i \in 1..Len(job.errors) : job.errors[i] # "Too Many Requests"

\* a build that was refused a media page and a second page of characters,
\* and went on to write the cache
C27_Witness ==
    /\ job.pc = "written"
    /\ Len(job.naps) = 2
    /\ \E v \in Elements(job.characterPages) : v[3] = 2
    /\ \E k \in Brackets : job.cache[k] # NoBracket

\* ------------------------------------------------------------------------
\* The early stop of the tier loop of getSacrifices
\* ------------------------------------------------------------------------

\* the possibilities when every tier 1 to 5 is processed: without a target
\* the loop never breaks
allTiers(chars) == possibilities(chars, Undefined)

\* C28: stopping the tier loop once the target tier is populated is a pure
\* optimisation: in target mode the call yields the same group, or the same
\* error with the same count, as an evaluation that processes all tiers 1 to
\* 5 in increasing order.
C28_EarlyStopIsOptimisation ==
    (mpc = "done" /\ mode = "target") =>
        result = select(allTiers(characters), target)

\* a call whose loop stopped before the last tier and returned a group
C28_Witness ==
    /\ mpc = "done"
    /\ mode = "target"
    /\ result.status = "ok"
    /\ possibilities(characters, target) # allTiers(characters)

\* ------------------------------------------------------------------------
\* Properties of steal.getChances
\* ------------------------------------------------------------------------

\* the owner's last pull is at least the given number of days ago
InactiveFor(days) == lastPullAgo # NeverPulled /\ lastPullAgo >= days * 24

Steals(u) ==
    \/ StealPre(u)
    \/ \E success \in BOOLEAN : StealAttempt(u, success)

ElapsedMinutes ==
    IF budget.rechargeTimestamp = NoTimestamp THEN 0
    ELSE calledAt - budget.rechargeTimestamp

\* C31: rechargePulls credits one pull per full 30 minutes elapsed since
\* rechargeTimestamp, capped so that recharging never lifts availablePulls
\* above 5: from c pulls and m elapsed minutes the result is
\* c + min(max(0, 5 - c), floor(m / 30)); it never decreases and is strictly
\* larger whenever c < 5 and m >= 30.
C31_RechargeCredit ==
    credited # <<>> =>
        LET c == budget.availablePulls
            m == ElapsedMinutes
            after == credited[1].availablePulls
        IN /\ after = c + Min(Max(0, 5 - c), m \div 30)
           /\ after >= c
           /\ (c < 5 /\ m >= 30) => after > c

\* ------------------------------------------------------------------------
\* Reading the inventory after a recharge
\* ------------------------------------------------------------------------

\* C32: after rechargePulls has committed a change (commit = true), a
\* following getInventory for the same instance and user returns the
\* recharged availablePulls and rechargeTimestamp, and its version token
\* differs from the one read before the commit.
C32_ReadAfterRecharge ==
    [][\A p \in Rechargers :
          (/\ rp[p].pc = "commit"
           /\ rp'[p].pc = "returned"
           /\ rp[p].inventory # kv[checkedKey].value) =>
              /\ kv'[checkedKey].value.availablePulls =
                     rp'[p].inventory.availablePulls
              /\ kv'[checkedKey].value.rechargeTimestamp =
                     rp'[p].inventory.rechargeTimestamp
              /\ kv'[checkedKey].versionstamp # rp[p].inventoryCheck]_vars

\* ------------------------------------------------------------------------
\* C33..C35: the group getSacrifices returns
\* ------------------------------------------------------------------------

\* the characters of a list, as a set
MembersOf(g) == {g[k] : k \in 1..Len(g)}

\* no character is listed twice
NoTwice(g) == \A j, k \in 1..Len(g) : g[j].id = g[k].id => j = k

\* C33: a call of getSacrifices that returns a group leaves the input list as
\* it was; the group holds characters of the input only, none of them twice,
\* and every one of them is rated below the resolved target or, when the
\* resolved target is 5, rated 5.
C33_GroupWithinInput ==
    [][(mpc = "call" /\ mpc' = "done" /\ result'.status = "ok")
          => /\ characters' = characters
             /\ MembersOf(result'.group) \subseteq MembersOf(characters)
             /\ NoTwice(result'.group)
             /\ \A k \in 1..Len(result'.group) :
                   \/ result'.group[k].rating < result'.target
                   \/ result'.group[k].rating = 5 /\ result'.target = 5]_vars

C33_Witness ==
    /\ Done /\ result.status = "ok" /\ result.target = 5
    /\ CountOf(result.group, 5) = 1 /\ CountOf(result.group, 4) = 4
    /\ characters # toSorted(characters)
    /\ MembersOf(result.group) # MembersOf(characters)

\* the characters rated below t, rating 5 counted as 4
Below(t) == SelectSeq(characters, LAMBDA c : bucket(c) < t)

\* C34: in target mode with a target t in 2..5 getSacrifices returns a group
\* exactly when the characters rated below t (rating 5 counted as 4) weigh
\* 5^(t-1) or more in total, and throws the insufficient-sacrifices error
\* otherwise; 20 characters rated 1 and one rated 2 are enough for target 3.
C34_SucceedsIffWeight ==
    (Done /\ mode = "target" /\ target \in 2..5)
        => /\ result.status = "ok"
                <=> Weight(Below(target)) >= Pow(5, target - 1)
           /\ result.status \in {"ok", "merge-insufficient"}
           /\ (target = 3 /\ Len(characters) = 21
               /\ CountOf(characters, 1) = 20 /\ CountOf(characters, 2) = 1)
                => result.status = "ok"

C34_Witness ==
    /\ Done /\ mode = "target" /\ target = 3
    /\ CountOf(characters, 1) = 4 /\ CountOf(characters, 2) = 4
    /\ CountOf(characters, 3) = 5
    /\ Weight(Below(target)) = 24
    /\ result.status = "merge-insufficient"

\* the weight of the characters rated below r that a group leaves out
LeftOutBelow(g, r) ==
    Weight(SelectSeq(characters, LAMBDA c : c.rating < r))
    - Weight(SelectSeq(g, LAMBDA c : c.rating < r))

\* the weight of one character of rating r
OneOf(r) == IF r = 5 THEN 125 ELSE Pow(5, r - 1)

\* C35: a returned group spends the lower ratings first: when it holds a
\* character of rating r, the characters rated below r that it leaves out weigh
\* less than one character of rating r; it holds a rating-5 character only
\* together with every rating-4 character of the input; with 625 characters
\* rated 1 and one rated 4, target 5 takes the 625 and leaves the rating-4
\* character out.
C35_LowerRatingsFirst ==
    (Done /\ result.status = "ok")
        => /\ \A r \in Ratings :
                CountOf(result.group, r) > 0
                    => LeftOutBelow(result.group, r) < OneOf(r)
           /\ CountOf(result.group, 5) > 0
                => CountOf(result.group, 4) = CountOf(characters, 4)
           /\ (result.target = 5 /\ CountOf(characters, 1) >= 625)
                => /\ CountOf(result.group, 1) = 625
                   /\ CountOf(result.group, 4) = 0

C35_Witness ==
    /\ Done /\ result.status = "ok" /\ result.target = 5
    /\ CountOf(characters, 1) = 500 /\ CountOf(characters, 3) = 25
    /\ CountOf(result.group, 1) = 500 /\ CountOf(result.group, 3) = 5

\* ------------------------------------------------------------------------
\* C36: packs.all suspended across an install or uninstall
\* ------------------------------------------------------------------------

\* the continuation of the packs.all call c writes its entry in this step
Writes(c) == allCalls[c].pc = "set" /\ allCalls'[c].pc = "idle"

\* C36: once an install or uninstall for guild g has returned, the entry a
\* packs.all call writes for g lists the packs the store holds after the
\* change, also when the call was suspended at its store read during the
\* change: no list read before the change is written after the invalidation,
\* and packs.isDisabled answers from the conflicts of that list.
C36_NoStaleWrite ==
    [][\A c \in AllCallers :
          (Writes(c) /\ ~Succeeding(allCalls[c].guildId)) =>
              LET g == allCalls[c].guildId
              IN /\ cachedGuilds'[g].packs = installed[g]
                 /\ cachedGuilds'[g].disables
                        = UNION {conflicts(id) : id \in installed[g]}]_vars

\* ------------------------------------------------------------------------
\* C37, C38: first calls racing
\* ------------------------------------------------------------------------

\* the handler has returned or thrown
Ended(h) ==
    calls[h].pc \in {"returned", "KvError: failed to insert user",
                     "KvError: failed to insert guild",
                     "KvError: failed to insert inventory"}

\* C37: concurrent getInstance calls for a guild with no instance leave the
\* guild with one instance in use: once all calls have completed, every caller
\* that received an instance received the one guild.instances refers to.
C37_OneInstanceInUse ==
    (\A h \in Handlers : Ended(h)) =>
        \A h \in Handlers :
            calls[h].instance # <<>> =>
                /\ guildsByDiscordId(TheGuild) \in DOMAIN records
                /\ records[guildsByDiscordId(TheGuild)].instances
                       = <<calls[h].instance[1]._id>>

\* the keys the inserts of getUser, getGuild and getInventory check
CheckedKeys ==
    {usersByDiscordId(TheUser), guildsByDiscordId(TheGuild)}
    \cup {inventoriesByUser(ulidOf(i, "instance"), ulidOf(u, "user")) :
             i \in Handlers, u \in Handlers}

\* the key the insert the handler h is about to make checks
InsertKey(h) ==
    CASE calls[h].pc = "insertUser" -> usersByDiscordId(TheUser)
      [] calls[h].pc = "insertGuild" -> guildsByDiscordId(TheGuild)
      [] calls[h].pc = "insertInventory" ->
            inventoriesByUser(calls[h].instance[1]._id, calls[h].user[1]._id)

\* the record the insert of the handler h sets under the key it checks
InsertValue(h) ==
    CASE calls[h].pc = "insertUser" -> calls[h].user[1]
      [] calls[h].pc = "insertGuild" -> calls[h].guild[1]
      [] calls[h].pc = "insertInventory" -> calls[h].inventory[1]

\* the records of one kind that handlers have made and the store holds
Made(kind, plural) ==
    {h \in Handlers : primaryKey(plural, ulidOf(h, kind)) \in DOMAIN records}

\* C38: of the first-time calls of getUser, getGuild or getInventory racing on
\* one key exactly one insert commits: an insert whose key holds no record
\* writes its record there, an insert whose key holds one fails with KvError
\* and writes nothing; the record under a checked key is never replaced by
\* another one, and no second user, guild or inventory of the same instance
\* and user is created.
C38_OneInsertPerKey ==
    [][/\ \A h \in Handlers :
             (/\ calls[h].pc \in {"insertUser", "insertGuild", "insertInventory"}
              /\ calls'[h] # calls[h]) =>
                 IF InsertKey(h) \notin DOMAIN records
                 THEN /\ records'[InsertKey(h)] = InsertValue(h)
                      /\ calls'[h].pc \in {"getGuild", "getInstance",
                                           "insertInstance", "returned"}
                 ELSE /\ records' = records
                      /\ calls'[h].pc \in
                            {"KvError: failed to insert user",
                             "KvError: failed to insert guild",
                             "KvError: failed to insert inventory"}
       /\ \A k \in CheckedKeys :
             k \in DOMAIN records =>
                 /\ k \in DOMAIN records'
                 /\ records'[k]._id = records[k]._id
       /\ Cardinality(Made("user", "users")) <= 1
       /\ Cardinality(Made("guild", "guilds")) <= 1
       /\ \A g, h \in Made("inventory", "inventories") :
             LET a == records[primaryKey("inventories", ulidOf(g, "inventory"))]
                 b == records[primaryKey("inventories", ulidOf(h, "inventory"))]
             IN (a.instance = b.instance /\ a.user = b.user) => g = h]_vars

\* two handlers raced on the inventory of one user in one instance: one
\* inserted it, the other failed
C38_Witness ==
    \E g, h \in Handlers :
        /\ calls[g].pc = "KvError: failed to insert inventory"
        /\ calls[h].pc = "returned"
        /\ calls[h].inventory[1]._id = ulidOf(h, "inventory")
        /\ calls[g].instance[1]._id = calls[h].instance[1]._id
        /\ \E f \in Handlers : calls[f].pc = "KvError: failed to insert guild"

\* ------------------------------------------------------------------------
\* C39: trade.pre
\* ------------------------------------------------------------------------

\* the ids a list names
Named(ids) == {ids[k] : k \in 1..Len(ids)}

\* the members of a party
Members(p) == Named(p) \ {NoId}

\* the characters to give that the user lacks or keeps in the party
GiveOffenders ==
    {id \in Named(offer.give) :
        id \notin holdings.giveCollection \/ id \in Members(holdings.giveParty)}

\* the characters to take that the target lacks or keeps in the party
TakeOffenders ==
    {id \in Named(offer.take) :
        id \notin holdings.takeCollection \/ id \in Members(holdings.takeParty)}

newPopularity(id) == IF id = "1" THEN 60000 ELSE 2000

newRole(id) == IF id = "1" THEN "SUPPORTING" ELSE "BACKGROUND"

\* the entry comes from the characters.new of an installed pack
FromPack(entry) == \E c \in Elements(NewCharacters) : c.id = entry.id

\* the popularity lies in the bracket the key names
InRange(key, popularity) ==
    \E k \in 1..Len(ranges) :
        ranges[k] = key /\ inBracket(popularity, rangeValues[k])

\* C40: every entry of a pool built for a bracket and a role (no exact stars)
\* is of a character whose primary-media popularity lies in the bracket and
\* whose role is the role asked for: an entry of the cache is listed by the
\* cache under that bracket and role, an entry of an installed pack has a
\* popularity in the bracket and that role.
C40_PoolWithinBracketAndRole ==
    (Pooled /\ pooled.status = "ok" /\ stars = Undefined) =>
        \A k \in 1..Len(pooled.pool) :
            LET entry == pooled.pool[k]
            IN IF FromPack(entry)
               THEN /\ InRange(range, newPopularity(entry.id))
                    /\ role # Nothing => newRole(entry.id) = role
               ELSE \E j \in 1..Len(anilist[range][IF role = Nothing
                                                   THEN "ALL" ELSE role]) :
                       anilist[range][IF role = Nothing THEN "ALL" ELSE role][j]
                           = entry

====
